---------------------------- MODULE Spec2Model ----------------------------
(***************************************************************************)
(* Verification model of the security core of iran-proxy-unified:          *)
(*   - the handshake fragmenter  (src/security/src/tls_fragmentation.rs)   *)
(*   - the pattern-rotation registry (src/security/src/dynamic_patterns.rs)*)
(* The two engines share no state.  FragSpec runs one fragmenter call and  *)
(* keeps the registry idle; RegSpec runs registry operations and keeps the *)
(* fragmenter idle.                                                        *)
(***************************************************************************)
EXTENDS Integers, Sequences, FiniteSets, TLC

VARIABLES
    \* ---- TLSFragmenter ----
    config,      \* TLSFragmenter.config (fixed at construction)
    api,         \* entry point of the call in progress
    handshake,   \* the handshake argument of the call
    pc,          \* position of the call: "idle", "loop", "done"
    offset,      \* local `offset` of fragment_client_hello
    packets,     \* local `packets` of fragment_client_hello
    passes,      \* fragmentation passes started by this call (saturates)
    result,      \* what the call returned to its caller
    \* ---- PatternRotator ----
    rconfig,     \* PatternRotator.config (fixed at construction)
    sessions,    \* PatternRotator.sessions: stored id -> SessionState
    last_hourly_pattern,  \* PatternRotator.last_hourly_pattern
    now,         \* monotonic clock read by Instant::now()
    wall,        \* wall clock read by SystemTime::now(), epoch seconds
    last_call,   \* the registry call that has just returned, and its value
    issued,      \* ghost: id -> parameters returned by its last create/rotate
    rotated,     \* ghost: id -> rotations that returned Some since its creation
    poisoned,    \* the sessions mutex is poisoned: a holder panicked
    \* ---- threads calling into one PatternRotator ----
    tpc,         \* thread -> position inside the call it is making
    tlocal,      \* thread -> local variables of that call
    holder,      \* mutex -> the thread that holds its guard, or "none"
    trace,       \* ghost: the calls that have returned, in order of return
    \* ---- DetectionEvader and the C interface ----
    evader,      \* a DetectionEvader: max_adaptation_level, current_level
    SECURITY_STATE  \* ffi.rs static SECURITY_STATE: Option<SecurityState>

fragVars == <<config, api, handshake, pc, offset, packets, passes, result>>
regVars  == <<rconfig, sessions, last_hourly_pattern, now, wall, last_call, issued,
              rotated, poisoned>>
vars     == <<config, api, handshake, pc, offset, packets, passes, result,
              rconfig, sessions, last_hourly_pattern, now, wall, last_call, issued,
              rotated, poisoned, tpc, tlocal, holder, trace, evader, SECURITY_STATE>>
thrVars  == <<tpc, tlocal, holder, trace>>
extVars  == <<evader, SECURITY_STATE>>

Min(a, b) == IF a <= b THEN a ELSE b

\* A u32 is held as the 32-bit integer with the same bit pattern: 0 to
\* 2^31 - 1 as themselves, 2^31 to 2^32 - 1 as the value minus 2^32. Adding 1
\* to u32::MAX then gives 0, as the wrapping addition of a release build does.
U32_MAX == -1

\* a <= b for two u32 values
u32_le(a, b) ==
    IF (a >= 0) = (b >= 0) THEN a <= b ELSE a >= 0

\* the upper and the lower 16 bits of a u32
u32_hi(a) == (a \div 65536) + (IF a < 0 THEN 65536 ELSE 0)
u32_lo(a) == a % 65536

\* a / n for a u32 a and a divisor n >= 1 that fits 15 bits
u32_div(a, n) ==
    IF n = 1 THEN a
    ELSE (u32_hi(a) \div n) * 65536 + (((u32_hi(a) % n) * 65536 + u32_lo(a)) \div n)

\* HashMap::new()
EmptyMap == [id \in {} |-> 0]

\* what a caller sees of a call that has returned
Returned(op, id, hit, ret) ==
    [op |-> op, id |-> id, hit |-> hit, ret |-> ret, panicked |-> FALSE]

\* a call that panicked instead of returning
Panicked(op, id) ==
    [op |-> op, id |-> id, hit |-> FALSE, ret |-> 0, panicked |-> TRUE]

\* no such call has returned yet
NoCall == Returned("new", "", FALSE, 0)

\* SessionParameters that have not been drawn
NoParameters == [tcp_window_size |-> 0, tcp_mss |-> 0, ttl |-> 0,
                 initial_rtt_ms |-> 0, packet_timing_variance |-> 0]

\* Option<T>
Some(v) == [some |-> TRUE, value |-> v]
None == [some |-> FALSE, value |-> 0]

\* no DetectionEvader has been constructed
NoEvader == [max_adaptation_level |-> 0, current_level |-> 0]

\* the pattern slot of a registry that is not used
NoPattern == [pattern_id |-> "", hour |-> 0, tcp_flags_preset |-> 0,
              initial_sequence_offset |-> 0, urg_pointer_enabled |-> FALSE]

(***************************************************************************)
(* Bounds of the model                                                     *)
(***************************************************************************)
\* fragments one pass may push before the model stops following it
MaxPackets == 3
\* passes counted exactly; `passes` stays at this value from then on
MaxPasses == 2

(***************************************************************************)
(* tls_fragmentation.rs: constants                                         *)
(***************************************************************************)
MIN_FRAGMENT_SIZE == 100
MAX_FRAGMENT_SIZE == 500
MIN_DELAY_MS == 10
MAX_DELAY_MS == 100
TLS_RECORD_TYPE_HANDSHAKE == 22
TLS_VERSION_MAJOR == 3
TLS_HANDSHAKE_TYPE_CLIENT_HELLO == 1
\* minimum plausible ClientHello size checked by fragment_client_hello
MIN_CLIENT_HELLO_LEN == 43
\* bounds of the first fragment under preserve_record_boundary
FIRST_FRAGMENT_MIN == 150
FIRST_FRAGMENT_MAX == 200

\* impl Default for TLSFragmentationConfig
DefaultFragmentationConfig ==
    [min_fragment_size |-> MIN_FRAGMENT_SIZE,
     max_fragment_size |-> MAX_FRAGMENT_SIZE,
     min_delay_ms |-> MIN_DELAY_MS,
     max_delay_ms |-> MAX_DELAY_MS,
     randomize_delays |-> TRUE,
     preserve_record_boundary |-> TRUE]

\* impl Default for PatternRotationConfig
DefaultPatternRotationConfig ==
    [rotation_interval_hours |-> 1,
     enable_hourly_patterns |-> TRUE,
     randomize_tcp_window |-> TRUE,
     randomize_ttl |-> TRUE,
     randomize_packet_timing |-> TRUE,
     session_level_variation |-> TRUE,
     min_tcp_window |-> 1024, max_tcp_window |-> 65535,
     min_ttl |-> 32, max_ttl |-> 128,
     min_rtt_ms |-> 10, max_rtt_ms |-> 500]

\* FragmentedPacket { data, delay_ms }
FragmentedPacket(data, delay) == [data |-> data, delay_ms |-> delay]

\* Result<Vec<FragmentedPacket>, String>, or a panic unwinding to the caller
Ok(pkts)   == [kind |-> "Ok", packets |-> pkts, msg |-> ""]
Err(m)     == [kind |-> "Err", packets |-> <<>>, msg |-> m]
Panic(m)   == [kind |-> "Panic", packets |-> <<>>, msg |-> m]
NoResult   == [kind |-> "none", packets |-> <<>>, msg |-> ""]

\* TLSFragmenter::is_client_hello (data[i] of the source is data[i+1] here)
is_client_hello(data) ==
    IF Len(data) < 6 THEN FALSE
    ELSE IF data[1] # TLS_RECORD_TYPE_HANDSHAKE THEN FALSE
    ELSE IF data[2] # TLS_VERSION_MAJOR \/ (data[3] # 3 /\ data[3] # 4) THEN FALSE
    ELSE IF data[6] # TLS_HANDSHAKE_TYPE_CLIENT_HELLO THEN FALSE
    ELSE TRUE

\* mutation of ValidationError: the length test written with <=
ValidationError_LengthLe(data) ==
    IF ~is_client_hello(data) THEN "Not a TLS ClientHello packet"
    ELSE IF Len(data) <= MIN_CLIENT_HELLO_LEN THEN "ClientHello too short"
    ELSE ""

\* the two early returns of fragment_client_hello: "" when the buffer passes
ValidationError(data) ==
    IF ~is_client_hello(data) THEN "Not a TLS ClientHello packet"
    ELSE IF Len(data) < MIN_CLIENT_HELLO_LEN THEN "ClientHello too short"
    ELSE ""

\* rng.gen_range(lo..=hi): the values it can return; it panics on an empty range
gen_range(lo, hi) == lo .. hi

\* mutation of FragmentSizeRange: the first-fragment range is not capped at 200
FragmentSizeRange_FirstUncapped(cfg, off, len) ==
    IF cfg.preserve_record_boundary /\ off = 0
    THEN gen_range(FIRST_FRAGMENT_MIN, len)
    ELSE gen_range(cfg.min_fragment_size, Min(cfg.max_fragment_size, len - off))

\* mutation of FragmentSizeRange: the lower end of the first-fragment range is
\* clamped to the buffer length as well
FragmentSizeRange_FirstClamped(cfg, off, len) ==
    IF cfg.preserve_record_boundary /\ off = 0
    THEN gen_range(Min(FIRST_FRAGMENT_MIN, len), Min(FIRST_FRAGMENT_MAX, len))
    ELSE gen_range(cfg.min_fragment_size, Min(cfg.max_fragment_size, len - off))

\* the range `fragment_size` is drawn from at `off` in a buffer of `len` bytes
FragmentSizeRange(cfg, off, len) ==
    IF cfg.preserve_record_boundary
    THEN IF off = 0
         THEN gen_range(FIRST_FRAGMENT_MIN, Min(FIRST_FRAGMENT_MAX, len))
         ELSE gen_range(cfg.min_fragment_size, Min(cfg.max_fragment_size, len - off))
    ELSE gen_range(cfg.min_fragment_size, Min(cfg.max_fragment_size, len - off))

\* let end = cmp::min(offset + fragment_size, handshake.len())
SliceEnd(off, size, len) == Min(off + size, len)

\* mutation of Slice: the slice is taken from the start of the buffer
Slice_FromStart(data, off, end) == SubSeq(data, 1, end - off)

\* handshake[offset..end].to_vec()
Slice(data, off, end) == SubSeq(data, off + 1, end)

\* whether the delay of the fragment at `off` is drawn at all
DelayIsDrawn(cfg, off) == ~(off = 0 /\ ~cfg.randomize_delays)

\* the range the delay is drawn from
DelayRange(cfg) == gen_range(cfg.min_delay_ms, cfg.max_delay_ms)

\* the values `delay` can take for the fragment at `off`
DelayChoices(cfg, off) == IF DelayIsDrawn(cfg, off) THEN DelayRange(cfg) ELSE {0}

\* mutation of NeedsRefragment: the test is left out
NeedsRefragment_Never(cfg, pkts) == FALSE

\* mutation of NeedsRefragment: any single fragment is refused
NeedsRefragment_AnySingle(cfg, pkts) == Len(pkts) = 1

\* packets.len() == 1 && packets[0].data.len() > self.config.max_fragment_size
NeedsRefragment(cfg, pkts) ==
    Len(pkts) = 1 /\ Len(pkts[1].data) > cfg.max_fragment_size

\* mutation of IpdPacket: the index test is off by one
IpdPacket_OffByOne(cfg, idx, pkt) ==
    IF idx = 1 THEN [pkt EXCEPT !.delay_ms = 0]
    ELSE IF pkt.delay_ms = 0 THEN [pkt EXCEPT !.delay_ms = cfg.min_delay_ms]
    ELSE pkt

\* the closure of fragment_with_ipd, applied to the packet at 0-based idx
IpdPacket(cfg, idx, pkt) ==
    IF idx = 0 THEN [pkt EXCEPT !.delay_ms = 0]
    ELSE IF pkt.delay_ms = 0 THEN [pkt EXCEPT !.delay_ms = cfg.min_delay_ms]
    ELSE pkt

\* packets.into_iter().enumerate().map(..).collect()
IpdMap(cfg, pkts) == [i \in 1..Len(pkts) |-> IpdPacket(cfg, i - 1, pkts[i])]

\* what the entry point hands back for a successful fragment_client_hello
ApiResult(cfg, entry, pkts) ==
    IF entry = "fragment_with_ipd" THEN Ok(IpdMap(cfg, pkts)) ELSE Ok(pkts)

\* reassemble_fragments
RECURSIVE reassemble_fragments(_)
reassemble_fragments(datas) ==
    IF datas = <<>> THEN <<>>
    ELSE datas[1] \o reassemble_fragments(SubSeq(datas, 2, Len(datas)))

\* packets.iter().map(|p| p.data.clone()).collect()
Payloads(pkts) == [i \in 1..Len(pkts) |-> pkts[i].data]

\* packets.iter().map(|p| p.data.len()).sum()
RECURSIVE total_size(_)
total_size(pkts) ==
    IF pkts = <<>> THEN 0
    ELSE Len(pkts[1].data) + total_size(SubSeq(pkts, 2, Len(pkts)))

\* packets.iter().map(|p| p.data.len()).min().unwrap_or(0)
min_size(pkts) ==
    IF pkts = <<>> THEN 0
    ELSE LET i == CHOOSE k \in 1..Len(pkts) :
                      \A j \in 1..Len(pkts) : Len(pkts[k].data) <= Len(pkts[j].data)
         IN Len(pkts[i].data)

\* packets.iter().map(|p| p.data.len()).max().unwrap_or(0)
max_size(pkts) ==
    IF pkts = <<>> THEN 0
    ELSE LET i == CHOOSE k \in 1..Len(pkts) :
                      \A j \in 1..Len(pkts) : Len(pkts[k].data) >= Len(pkts[j].data)
         IN Len(pkts[i].data)

\* packets.iter().map(|p| p.delay_ms).sum() as a u32: the addition wraps
RECURSIVE total_delay(_)
total_delay(pkts) ==
    IF pkts = <<>> THEN 0
    ELSE pkts[1].delay_ms + total_delay(SubSeq(pkts, 2, Len(pkts)))

\* the exact sum of the delays in units of 65536 (carries of the lower halves
\* included): the u32 sum overflows when it reaches 65536
RECURSIVE delay_sum_hi(_, _)
delay_sum_hi(pkts, lo) ==
    IF pkts = <<>> THEN lo \div 65536
    ELSE u32_hi(pkts[1].delay_ms)
            + delay_sum_hi(SubSeq(pkts, 2, Len(pkts)), lo + u32_lo(pkts[1].delay_ms))

\* the u32 sum of the delays overflows
DelaySumOverflows(pkts) == delay_sum_hi(pkts, 0) >= 65536

\* FragmentationStats { .. } of get_stats
get_stats(pkts) ==
    [num_packets |-> Len(pkts),
     total_size |-> total_size(pkts),
     min_size |-> min_size(pkts),
     max_size |-> max_size(pkts),
     avg_size |-> IF pkts = <<>> THEN 0 ELSE total_size(pkts) \div Len(pkts),
     total_delay_ms |-> total_delay(pkts),
     avg_delay_ms |-> IF pkts = <<>> THEN 0 ELSE u32_div(total_delay(pkts), Len(pkts))]

(***************************************************************************)
(* Inputs of the fragmenter                                                *)
(***************************************************************************)
\* record header: type, major, minor, 2 length bytes, handshake type
Header(b0, b1, b2, b5) == <<b0, b1, b2, 0, 80, b5>>

Headers ==
    { Header(22, 3, 3, 1), Header(22, 3, 4, 1),       \* accepted
      Header(23, 3, 3, 1), Header(22, 2, 3, 1),       \* byte 0, byte 1 wrong
      Header(22, 3, 2, 1), Header(22, 3, 5, 1),       \* byte 2 wrong
      Header(22, 3, 3, 2) }                           \* byte 5 wrong

\* a buffer of n bytes: the header (cut to n), then a body whose bytes differ
\* from their neighbours, so that a reordered or shifted slice is seen
Buffer(hdr, n) == [i \in 1..n |-> IF i <= 6 THEN hdr[i] ELSE (i * 7) % 256]

\* create_sample_client_hello: the header padded with zeros to 85 bytes
SampleClientHello == [i \in 1..85 |-> IF i <= 6 THEN Header(22, 3, 3, 1)[i] ELSE 0]

BufferLengths == {0, 3, 5, 6, 42, 43, 85, 149, 150, 151, 200, 250}

Handshakes ==
    { Buffer(h, n) : h \in Headers, n \in BufferLengths }
        \cup {SampleClientHello, <<255, 255, 255>>}

\* TLSFragmentationConfig { .. } with the given sizes and delays
FragmentationConfig(smin, smax, dmin, dmax, rand, pres) ==
    [min_fragment_size |-> smin, max_fragment_size |-> smax,
     min_delay_ms |-> dmin, max_delay_ms |-> dmax,
     randomize_delays |-> rand, preserve_record_boundary |-> pres]

\* a zero minimum size with a maximum that lets the shortest accepted buffer
\* through in two fragments, one delay value, delays not randomized, record
\* boundary not preserved
ZeroMinimumConfig == FragmentationConfig(0, 43, 10, 10, FALSE, FALSE)

\* the default sizes with every delay at the 32-bit maximum
MaximumDelayConfig == FragmentationConfig(100, 500, U32_MAX, U32_MAX, TRUE, TRUE)

\* configurations the fragmenter is constructed with: the default one, the
\* default sizes with a zero minimum delay, sizes below the first-fragment
\* range, and a zero minimum size
FragmentationConfigs ==
    {DefaultFragmentationConfig}
    \cup { FragmentationConfig(100, 500, 0, 1, r, p) : r \in BOOLEAN, p \in BOOLEAN }
    \cup { FragmentationConfig(42, 43, 10, 11, r, p) : r \in BOOLEAN, p \in BOOLEAN }
    \cup { FragmentationConfig(0, 2, 10, 11, r, p) : r \in BOOLEAN, p \in BOOLEAN }
    \cup { ZeroMinimumConfig, MaximumDelayConfig }

\* the buffers a fragmenter of configuration cfg is called with: under
\* ZeroMinimumConfig every draw ranges over 0..=43, so only the shortest
\* accepted buffer is followed; under MaximumDelayConfig one buffer that is
\* cut in two
HandshakesFor(cfg) ==
    IF cfg = ZeroMinimumConfig
    THEN { Buffer(Header(22, 3, 3, 1), MIN_CLIENT_HELLO_LEN) }
    ELSE IF cfg = MaximumDelayConfig
    THEN { Buffer(Header(22, 3, 3, 1), 250) }
    ELSE Handshakes

Apis == {"fragment_client_hello", "fragment_with_ipd"}

(***************************************************************************)
(* TLSFragmenter: state machine of one call                                *)
(***************************************************************************)
\* threads that share one PatternRotator
Threads == {"t1", "t2"}

\* the locals of a thread that is in no call
NoLocal == [new_pattern |-> NoPattern, differs |-> FALSE,
            session_id |-> "", found |-> FALSE, new_params |-> NoParameters,
            last_rotation |-> 0, pattern_profile |-> "", op |-> ""]

\* both mutexes of a constructed PatternRotator are free
NoHolder == [sessions |-> "none", last_hourly_pattern |-> "none"]

\* a constructed fragmenter, no call made yet; the registry is not used
InitFrag ==
    /\ config \in FragmentationConfigs
    /\ api = "none"
    /\ handshake = <<>>
    /\ pc = "idle"
    /\ offset = 0
    /\ packets = <<>>
    /\ passes = 0
    /\ result = NoResult
    /\ rconfig = DefaultPatternRotationConfig
    /\ sessions = EmptyMap
    /\ wall = 1762300800
    /\ last_hourly_pattern = NoPattern
    /\ now = 0
    /\ last_call = NoCall
    /\ issued = EmptyMap
    /\ rotated = EmptyMap
    /\ poisoned = FALSE
    /\ tpc = [t \in Threads |-> "idle"]
    /\ tlocal = [t \in Threads |-> NoLocal]
    /\ holder = NoHolder
    /\ trace = <<>>
    /\ evader = NoEvader
    /\ SECURITY_STATE = None

\* entry of fragment_client_hello (directly, or from fragment_with_ipd, which
\* passes an Err on with `?`): validation, then the locals of the first pass
Call(entry, data) ==
    /\ pc = "idle"
    /\ api' = entry
    /\ handshake' = data
    /\ offset' = 0
    /\ packets' = <<>>
    /\ IF ValidationError(data) # ""
       THEN /\ result' = Err(ValidationError(data))
            /\ pc' = "done"
            /\ passes' = passes
       ELSE /\ result' = result
            /\ pc' = "loop"
            /\ passes' = 1
    /\ UNCHANGED config
    /\ UNCHANGED regVars
    /\ UNCHANGED <<thrVars, extVars>>

\* the body of the loop once both values are drawn: slice, push, advance
LoopBody(size, delay) ==
    /\ packets' = Append(packets,
           FragmentedPacket(
               Slice(handshake, offset, SliceEnd(offset, size, Len(handshake))),
               delay))
    /\ offset' = SliceEnd(offset, size, Len(handshake))
    /\ UNCHANGED <<config, api, handshake, pc, passes, result>>

\* one iteration of `while offset < handshake.len()` that draws both values
LoopStep ==
    /\ pc = "loop"
    /\ offset < Len(handshake)
    /\ Len(packets) < MaxPackets
    /\ \E size \in FragmentSizeRange(config, offset, Len(handshake)),
          delay \in DelayChoices(config, offset) :
        LoopBody(size, delay)
    /\ UNCHANGED regVars
    /\ UNCHANGED <<thrVars, extVars>>

\* an iteration whose size draw, or whose delay draw, is over an empty range:
\* gen_range panics and the call unwinds
LoopPanic ==
    /\ pc = "loop"
    /\ offset < Len(handshake)
    /\ Len(packets) < MaxPackets
    /\ \/ FragmentSizeRange(config, offset, Len(handshake)) = {}
       \/ DelayChoices(config, offset) = {}
    /\ result' = Panic("cannot sample empty range")
    /\ pc' = "done"
    /\ UNCHANGED <<config, api, handshake, offset, packets, passes>>
    /\ UNCHANGED regVars
    /\ UNCHANGED <<thrVars, extVars>>

\* loop left with a single over-long fragment: the call starts over
Refragment ==
    /\ pc = "loop"
    /\ offset >= Len(handshake)
    /\ NeedsRefragment(config, packets)
    /\ offset' = 0
    /\ packets' = <<>>
    /\ passes' = Min(passes + 1, MaxPasses)
    /\ UNCHANGED <<config, api, handshake, pc, result>>
    /\ UNCHANGED regVars
    /\ UNCHANGED <<thrVars, extVars>>

\* loop left otherwise: Ok(packets), mapped by fragment_with_ipd if it is the entry
Return ==
    /\ pc = "loop"
    /\ offset >= Len(handshake)
    /\ ~NeedsRefragment(config, packets)
    /\ result' = ApiResult(config, api, packets)
    /\ pc' = "done"
    /\ UNCHANGED <<config, api, handshake, offset, packets, passes>>
    /\ UNCHANGED regVars
    /\ UNCHANGED <<thrVars, extVars>>

\* TLSFragmenter::get_stats, once, on the empty sequence or on the fragments
\* the call has returned; where the u32 sum of the delays overflows a build
\* with overflow checks panics and one without them wraps
GetStats(arg) ==
    /\ pc = "done"
    /\ last_call = NoCall
    /\ arg = "result" => result.kind = "Ok"
    /\ LET pkts == IF arg = "result" THEN result.packets ELSE <<>>
       IN \/ last_call' = Returned("get_stats", arg, FALSE, get_stats(pkts))
          \/ /\ DelaySumOverflows(pkts)
             /\ last_call' = Panicked("get_stats", arg)
    /\ UNCHANGED <<rconfig, poisoned, sessions, last_hourly_pattern, now, wall, issued, rotated>>
    /\ UNCHANGED fragVars
    /\ UNCHANGED <<thrVars, extVars>>

NextFrag ==
    \/ \E entry \in Apis, data \in HandshakesFor(config) : Call(entry, data)
    \/ LoopStep
    \/ LoopPanic
    \/ Refragment
    \/ Return
    \/ \E arg \in {"empty", "result"} : GetStats(arg)

(***************************************************************************)
(* dynamic_patterns.rs: PatternRotator                                     *)
(***************************************************************************)
\* bounds of the registry model
\* rotations of one session the model follows
MaxRotations == 1

\* session identifiers the callers use
SessionIds == {"s1", "s2"}

\* readings of the monotonic clock (Instant), in seconds since construction
Instants == {0, 3600, 86400}

\* readings of the wall clock (SystemTime), in seconds since the epoch: the
\* last second of one hour, and the first and the last second of the next
WallTimes == {1762300799, 1762300800, 1762304399}

\* which end of its range every random draw of one call returns
DrawEnds == {"low", "high"}

\* configurations the registry is constructed with (PatternRotator::new)
PatternRotationConfigs == { DefaultPatternRotationConfig }

\* PatternRotationConfig { .. } with the given interval, flags and bounds;
\* the fields the registry never reads keep their defaults
PatternRotationConfig(hours, rand_window, rand_ttl, window, ttl, rtt) ==
    [DefaultPatternRotationConfig EXCEPT
        !.rotation_interval_hours = hours,
        !.randomize_tcp_window = rand_window,
        !.randomize_ttl = rand_ttl,
        !.min_tcp_window = window[1], !.max_tcp_window = window[2],
        !.min_ttl = ttl[1], !.max_ttl = ttl[2],
        !.min_rtt_ms = rtt[1], !.max_rtt_ms = rtt[2]]

\* configurations with_config accepts whose every range has min <= max:
\* interval 0, ranges of one value, randomization off with the fixed values
\* inside and outside the ranges
OrderedRotationConfigs ==
    { DefaultPatternRotationConfig,
      PatternRotationConfig(0, TRUE, TRUE, <<1024, 65535>>, <<32, 128>>, <<10, 500>>),
      PatternRotationConfig(1, TRUE, TRUE, <<2048, 2048>>, <<64, 64>>, <<100, 100>>),
      PatternRotationConfig(1, FALSE, FALSE, <<1024, 65535>>, <<32, 128>>, <<10, 500>>),
      PatternRotationConfig(1, FALSE, FALSE, <<1024, 60000>>, <<32, 60>>, <<10, 500>>),
      PatternRotationConfig(1, FALSE, FALSE, <<1024, 60000>>, <<65, 128>>, <<10, 500>>) }

\* configurations with_config accepts in which one range has min > max
ViolatedRotationConfigs ==
    { PatternRotationConfig(1, TRUE, TRUE, <<65535, 1024>>, <<32, 128>>, <<10, 500>>),
      PatternRotationConfig(1, TRUE, TRUE, <<1024, 65535>>, <<128, 32>>, <<10, 500>>),
      PatternRotationConfig(1, TRUE, TRUE, <<1024, 65535>>, <<32, 128>>, <<500, 10>>),
      PatternRotationConfig(1, FALSE, FALSE, <<65535, 1024>>, <<128, 32>>, <<10, 500>>) }

\* every range of the configuration has min <= max
RangesOrdered(cfg) ==
    /\ cfg.min_tcp_window <= cfg.max_tcp_window
    /\ cfg.min_ttl <= cfg.max_ttl
    /\ cfg.min_rtt_ms <= cfg.max_rtt_ms

\* the value a draw over lo..=hi returns at the given end
Draw(lo, hi, end) == IF end = "low" THEN lo ELSE hi

\* PatternRotator::generate_tcp_window
generate_tcp_window(cfg, end) ==
    IF cfg.randomize_tcp_window
    THEN Draw(cfg.min_tcp_window, cfg.max_tcp_window, end)
    ELSE 65535

\* mutation of generate_ttl: the flag is not consulted
generate_ttl_AlwaysDrawn(cfg, end) == Draw(cfg.min_ttl, cfg.max_ttl, end)

\* PatternRotator::generate_ttl
generate_ttl(cfg, end) ==
    IF cfg.randomize_ttl THEN Draw(cfg.min_ttl, cfg.max_ttl, end) ELSE 64

\* mutation of generate_packet_timing_variance: the flag is not consulted
generate_packet_timing_variance_AlwaysDrawn(cfg, end) == Draw(0, 50, end)

\* PatternRotator::generate_packet_timing_variance
generate_packet_timing_variance(cfg, end) ==
    IF cfg.randomize_packet_timing THEN Draw(0, 50, end) ELSE 0

\* PatternRotator::generate_initial_rtt
generate_initial_rtt(cfg, end) == Draw(cfg.min_rtt_ms, cfg.max_rtt_ms, end)

mss_options == <<512, 768, 1024, 1256, 1380, 1460, 1480>>

\* PatternRotator::generate_tcp_mss
generate_tcp_mss(end) == mss_options[Draw(1, Len(mss_options), end)]

\* SessionParameters { .. } as both get_session_parameters and
\* rotate_session_parameters build it
NewSessionParameters(cfg, end) ==
    [tcp_window_size |-> generate_tcp_window(cfg, end),
     tcp_mss |-> generate_tcp_mss(end),
     ttl |-> generate_ttl(cfg, end),
     initial_rtt_ms |-> generate_initial_rtt(cfg, end),
     packet_timing_variance |-> generate_packet_timing_variance(cfg, end)]

HexDigits == <<"0", "1", "2", "3", "4", "5", "6", "7",
               "8", "9", "a", "b", "c", "d", "e", "f">>

\* format!("{:08x}", n) for a 32-bit n
RECURSIVE HexFixed(_, _)
HexFixed(n, width) ==
    IF width = 0 THEN ""
    ELSE HexFixed(n \div 16, width - 1) \o HexDigits[(n % 16) + 1]

\* format!("pattern_{:08x}", hour)
PatternId(hour) == "pattern_" \o HexFixed(hour, 8)

\* (now.as_secs() / 3600) as u32 (the cast cuts nothing below 2^32 hours)
HourOf(secs) == secs \div 3600

\* PatternRotator::generate_hourly_pattern at wall-clock reading `secs`; the
\* 32-bit offset is drawn as 0 or 2^31 - 1, the largest integer of the model
generate_hourly_pattern(secs, end) ==
    [pattern_id |-> PatternId(HourOf(secs)),
     hour |-> HourOf(secs),
     tcp_flags_preset |-> Draw(0, 255, end),
     initial_sequence_offset |-> Draw(0, 2147483647, end),
     urg_pointer_enabled |-> (end = "high")]

\* mutation of CurrentHourlyPattern: the cached pattern is never replaced
CurrentHourlyPattern_KeepsCached(last_pattern, new_pattern) == last_pattern

\* the slot after PatternRotator::get_current_hourly_pattern, which also is
\* the value the call returns
CurrentHourlyPattern(last_pattern, new_pattern) ==
    IF new_pattern.hour # last_pattern.hour THEN new_pattern ELSE last_pattern

\* SessionState { .. } of get_session_parameters: both Instant::now() reads of
\* the constructor expression fall on the same reading `t`
NewSessionState(id, t, params, pattern_profile) ==
    [session_id |-> id,
     created_at |-> t,
     parameters |-> params,
     last_rotation |-> t,
     rotation_count |-> 0,
     pattern_profile |-> pattern_profile]

\* mutation of RotatedSessionState: the counter and the pattern are left as
\* they were
RotatedSessionState_ParamsOnly(session, t, new_params, pattern_profile) ==
    [session EXCEPT !.parameters = new_params, !.last_rotation = t]

\* the four assignments of rotate_session_parameters to the stored entry; the
\* addition wraps at u32::MAX (no overflow check)
RotatedSessionState(session, t, new_params, pattern_profile) ==
    [session EXCEPT !.parameters = new_params,
                    !.last_rotation = t,
                    !.rotation_count = session.rotation_count + 1,
                    !.pattern_profile = pattern_profile]

\* HashMap::insert
Insert(map, key, value) ==
    [k \in DOMAIN map \cup {key} |-> IF k = key THEN value ELSE map[k]]

\* a constructed registry: empty map, the pattern of the hour of construction;
\* the fragmenter is not used
InitReg ==
    /\ rconfig \in PatternRotationConfigs
    /\ sessions = EmptyMap
    /\ wall \in WallTimes
    /\ \E end \in DrawEnds : last_hourly_pattern = generate_hourly_pattern(wall, end)
    /\ now = 0
    /\ last_call = NoCall
    /\ issued = EmptyMap
    /\ rotated = EmptyMap
    /\ poisoned = FALSE
    /\ config = DefaultFragmentationConfig
    /\ api = "none"
    /\ handshake = <<>>
    /\ pc = "idle"
    /\ offset = 0
    /\ packets = <<>>
    /\ passes = 0
    /\ result = NoResult
    /\ tpc = [t \in Threads |-> "idle"]
    /\ tlocal = [t \in Threads |-> NoLocal]
    /\ holder = NoHolder
    /\ trace = <<>>
    /\ evader = NoEvader
    /\ SECURITY_STATE = None

\* self.sessions.lock().unwrap() on a poisoned mutex: the call panics before
\* it reads or writes anything
LockPanic(op, id) ==
    /\ last_call' = Panicked(op, id)
    /\ UNCHANGED <<rconfig, poisoned, sessions, last_hourly_pattern, now, wall, issued, rotated>>

\* building SessionParameters { .. } makes a draw over an empty range:
\* gen_range(min..=max) with min > max panics, for the window and the TTL when
\* they are randomized, for the RTT always
DrawPanics(cfg) ==
    \/ cfg.randomize_tcp_window /\ cfg.min_tcp_window > cfg.max_tcp_window
    \/ cfg.randomize_ttl /\ cfg.min_ttl > cfg.max_ttl
    \/ cfg.min_rtt_ms > cfg.max_rtt_ms

\* the panic of such a draw unwinds through the guard of the sessions mutex,
\* which poisons it; nothing has been stored yet
DrawPanic(op, id) ==
    /\ last_call' = Panicked(op, id)
    /\ poisoned' = TRUE
    /\ UNCHANGED <<rconfig, sessions, last_hourly_pattern, now, wall, issued, rotated>>

\* get_session_parameters when the identifier is stored
GetExisting(id) ==
    /\ id \in DOMAIN sessions
    /\ last_call' = Returned("get_session_parameters", id, TRUE, sessions[id].parameters)
    /\ UNCHANGED <<rconfig, poisoned, sessions, last_hourly_pattern, now, wall, issued, rotated>>

\* get_session_parameters when it is not: draw, read the hourly pattern, insert
GetCreate(id, end, pend) ==
    /\ id \notin DOMAIN sessions
    /\ LET params == NewSessionParameters(rconfig, end)
           pattern == CurrentHourlyPattern(last_hourly_pattern,
                                           generate_hourly_pattern(wall, pend))
       IN /\ last_hourly_pattern' = pattern
          /\ sessions' = Insert(sessions, id,
                                NewSessionState(id, now, params, pattern.pattern_id))
          /\ last_call' = Returned("get_session_parameters", id, FALSE, params)
          /\ issued' = Insert(issued, id, params)
          /\ rotated' = Insert(rotated, id, 0)
    /\ UNCHANGED <<rconfig, poisoned, now, wall>>

\* mutation of GetSessionParameters: the lookup is skipped
GetSessionParameters_NoLookup(id, end, pend) ==
    /\ LET params == NewSessionParameters(rconfig, end)
           pattern == CurrentHourlyPattern(last_hourly_pattern,
                                           generate_hourly_pattern(wall, pend))
       IN /\ last_hourly_pattern' = pattern
          /\ sessions' = Insert(sessions, id,
                                NewSessionState(id, now, params, pattern.pattern_id))
          /\ last_call' = Returned("get_session_parameters", id, id \in DOMAIN sessions, params)
          /\ issued' = Insert(issued, id, params)
          /\ rotated' = Insert(rotated, id, 0)
    /\ UNCHANGED <<rconfig, poisoned, now, wall>>
    /\ UNCHANGED fragVars
    /\ UNCHANGED <<thrVars, extVars>>

\* PatternRotator::get_session_parameters
GetSessionParameters(id, end, pend) ==
    /\ IF poisoned THEN LockPanic("get_session_parameters", id)
       ELSE IF id \in DOMAIN sessions THEN GetExisting(id)
       ELSE IF DrawPanics(rconfig) THEN DrawPanic("get_session_parameters", id)
       ELSE GetCreate(id, end, pend)
    /\ UNCHANGED fragVars
    /\ UNCHANGED <<thrVars, extVars>>

\* session.rotation_count += 1 at u32::MAX in a build with overflow checks:
\* the addition panics after the parameters and the timestamp were assigned,
\* and the unwinding poisons the sessions mutex
RotateOverflowPanic(id, end) ==
    /\ sessions[id].rotation_count = U32_MAX
    /\ sessions' = [sessions EXCEPT ![id].parameters = NewSessionParameters(rconfig, end),
                                    ![id].last_rotation = now]
    /\ last_call' = Panicked("rotate_session_parameters", id)
    /\ poisoned' = TRUE
    /\ UNCHANGED <<last_hourly_pattern, issued, rotated>>

\* mutation of RotateSessionParameters: an identifier that is not stored is
\* inserted (an upsert)
RotateSessionParameters_Upsert(id, end, pend) ==
    /\ id \in DOMAIN sessions => sessions[id].rotation_count < MaxRotations
    /\ LET new_params == NewSessionParameters(rconfig, end)
           pattern == CurrentHourlyPattern(last_hourly_pattern,
                                           generate_hourly_pattern(wall, pend))
           session == IF id \in DOMAIN sessions THEN sessions[id]
                      ELSE NewSessionState(id, now, new_params, pattern.pattern_id)
       IN /\ last_hourly_pattern' = pattern
          /\ sessions' = Insert(sessions, id,
                 RotatedSessionState(session, now, new_params, pattern.pattern_id))
          /\ last_call' = Returned("rotate_session_parameters", id,
                                   id \in DOMAIN sessions,
                                   IF id \in DOMAIN sessions THEN Some(new_params)
                                   ELSE None)
          /\ issued' = Insert(issued, id, new_params)
          /\ rotated' = Insert(rotated, id, IF id \in DOMAIN rotated THEN rotated[id] + 1 ELSE 1)
    /\ UNCHANGED <<rconfig, poisoned, now, wall>>
    /\ UNCHANGED fragVars
    /\ UNCHANGED <<thrVars, extVars>>

\* PatternRotator::rotate_session_parameters
RotateSessionParameters(id, end, pend) ==
    /\ IF poisoned THEN LockPanic("rotate_session_parameters", id)
       ELSE IF id \in DOMAIN sessions /\ DrawPanics(rconfig)
       THEN DrawPanic("rotate_session_parameters", id)
       ELSE IF id \in DOMAIN sessions
       THEN \/ LET new_params == NewSessionParameters(rconfig, end)
                   pattern == CurrentHourlyPattern(last_hourly_pattern,
                                                   generate_hourly_pattern(wall, pend))
               IN /\ last_hourly_pattern' = pattern
                  /\ sessions' = [sessions EXCEPT ![id] =
                         RotatedSessionState(sessions[id], now, new_params,
                                             pattern.pattern_id)]
                  /\ last_call' = Returned("rotate_session_parameters", id, TRUE,
                                           Some(new_params))
                  /\ issued' = [issued EXCEPT ![id] = new_params]
                  /\ rotated' = [rotated EXCEPT ![id] = rotated[id] + 1]
                  /\ poisoned' = poisoned
            \/ RotateOverflowPanic(id, end)
       ELSE /\ last_call' = Returned("rotate_session_parameters", id, FALSE, None)
            /\ UNCHANGED <<sessions, last_hourly_pattern, issued, rotated, poisoned>>
    /\ UNCHANGED <<rconfig, now, wall>>
    /\ UNCHANGED fragVars
    /\ UNCHANGED <<thrVars, extVars>>

\* mutation of RotationDue: the comparison is strict
RotationDue_Strict(cfg, session, t) ==
    t - session.last_rotation > cfg.rotation_interval_hours * 3600

\* elapsed >= rotation_duration in should_rotate_session, at monotonic
\* reading `t`
RotationDue(cfg, session, t) ==
    t - session.last_rotation >= cfg.rotation_interval_hours * 3600

\* mutation of ShouldRotateSession: a session that is due is stamped as
\* rotated by the query itself
ShouldRotateSession_Rotates(id) ==
    /\ IF poisoned THEN LockPanic("should_rotate_session", id)
       ELSE /\ last_call' = Returned("should_rotate_session", id,
                                     id \in DOMAIN sessions,
                                     IF id \in DOMAIN sessions
                                     THEN RotationDue(rconfig, sessions[id], now)
                                     ELSE FALSE)
            /\ sessions' = IF id \in DOMAIN sessions /\ RotationDue(rconfig, sessions[id], now)
                           THEN [sessions EXCEPT ![id].last_rotation = now,
                                                 ![id].rotation_count = @ + 1]
                           ELSE sessions
            /\ UNCHANGED <<rconfig, poisoned, last_hourly_pattern, now, wall,
                           issued, rotated>>
    /\ UNCHANGED fragVars
    /\ UNCHANGED <<thrVars, extVars>>

\* PatternRotator::should_rotate_session
ShouldRotateSession(id) ==
    /\ IF poisoned THEN LockPanic("should_rotate_session", id)
       ELSE /\ last_call' = Returned("should_rotate_session", id,
                                     id \in DOMAIN sessions,
                                     IF id \in DOMAIN sessions
                                     THEN RotationDue(rconfig, sessions[id], now)
                                     ELSE FALSE)
            /\ UNCHANGED <<rconfig, poisoned, sessions, last_hourly_pattern, now, wall,
                           issued, rotated>>
    /\ UNCHANGED fragVars
    /\ UNCHANGED <<thrVars, extVars>>

\* mutation of Retained: the age is counted from the last rotation
Retained_SinceRotation(map, t) == { id \in DOMAIN map : t - map[id].last_rotation < 86400 }

\* the ids cleanup_old_sessions retains at monotonic reading `t`
Retained(map, t) == { id \in DOMAIN map : t - map[id].created_at < 86400 }

\* PatternRotator::cleanup_old_sessions
CleanupOldSessions ==
    /\ IF poisoned THEN LockPanic("cleanup_old_sessions", "")
       ELSE /\ sessions' = [id \in Retained(sessions, now) |-> sessions[id]]
            /\ issued' = [id \in Retained(sessions, now) |-> issued[id]]
            /\ rotated' = [id \in Retained(sessions, now) |-> rotated[id]]
            /\ last_call' = Returned("cleanup_old_sessions", "", FALSE, 0)
            /\ UNCHANGED <<rconfig, poisoned, last_hourly_pattern, now, wall>>
    /\ UNCHANGED fragVars
    /\ UNCHANGED <<thrVars, extVars>>

\* the sum of f over the keys in ids
RECURSIVE Sum(_, _)
Sum(f, ids) ==
    IF ids = {} THEN 0
    ELSE LET id == CHOOSE x \in ids : TRUE
         IN f[id] + Sum(f, ids \ {id})

\* mutation of total_rotations: the largest counter instead of the sum
total_rotations_Largest(map) ==
    IF DOMAIN map = {} THEN 0
    ELSE LET id == CHOOSE x \in DOMAIN map :
                      \A y \in DOMAIN map : map[y].rotation_count <= map[x].rotation_count
         IN map[id].rotation_count

\* sessions.values().map(|s| s.rotation_count).sum() as a u32: the addition
\* wraps
total_rotations(map) ==
    Sum([id \in DOMAIN map |-> map[id].rotation_count], DOMAIN map)

\* the exact sum of the rotation counters in units of 65536 (the carry of the
\* lower halves included): the u32 sum overflows when it reaches 65536
rotation_sum_hi(map) ==
    Sum([id \in DOMAIN map |-> u32_hi(map[id].rotation_count)], DOMAIN map)
       + (Sum([id \in DOMAIN map |-> u32_lo(map[id].rotation_count)], DOMAIN map)
             \div 65536)

\* the u32 sum of the rotation counters overflows
RotationSumOverflows(map) == rotation_sum_hi(map) >= 65536

\* total_rotations as f32 / total_sessions as f32, kept as the fraction; 0.0
\* when there is no session
avg_rotations(total, count) ==
    IF count > 0 THEN [num |-> total, den |-> count] ELSE [num |-> 0, den |-> 1]

\* RotationStats { .. }
RotationStats(map, pattern) ==
    [total_sessions |-> Cardinality(DOMAIN map),
     total_rotations |-> total_rotations(map),
     avg_rotations_per_session |->
         avg_rotations(total_rotations(map), Cardinality(DOMAIN map)),
     current_pattern |-> pattern.pattern_id]

\* the u32 sum of get_rotation_stats overflows in a build with overflow
\* checks: the panic unwinds through the sessions guard and poisons the
\* mutex, before get_current_hourly_pattern is called
StatsOverflowPanic ==
    /\ RotationSumOverflows(sessions)
    /\ last_call' = Panicked("get_rotation_stats", "")
    /\ poisoned' = TRUE
    /\ UNCHANGED <<rconfig, sessions, last_hourly_pattern, now, wall, issued, rotated>>

\* PatternRotator::get_rotation_stats: the totals under the sessions lock,
\* then the identifier get_current_hourly_pattern returns; where the u32 sum
\* overflows a build without overflow checks goes on with the wrapped sum
GetRotationStats(pend) ==
    /\ IF poisoned THEN LockPanic("get_rotation_stats", "")
       ELSE \/ LET pattern == CurrentHourlyPattern(last_hourly_pattern,
                                                   generate_hourly_pattern(wall, pend))
               IN /\ last_hourly_pattern' = pattern
                  /\ last_call' = Returned("get_rotation_stats", "", FALSE,
                                           RotationStats(sessions, pattern))
                  /\ UNCHANGED <<rconfig, poisoned, sessions, now, wall, issued, rotated>>
            \/ StatsOverflowPanic
    /\ UNCHANGED fragVars
    /\ UNCHANGED <<thrVars, extVars>>

\* PatternRotator::get_current_hourly_pattern
GetCurrentHourlyPattern(pend) ==
    /\ LET pattern == CurrentHourlyPattern(last_hourly_pattern,
                                           generate_hourly_pattern(wall, pend))
       IN /\ last_hourly_pattern' = pattern
          /\ last_call' = Returned("get_current_hourly_pattern", "", FALSE, pattern)
    /\ UNCHANGED <<rconfig, poisoned, sessions, now, wall, issued, rotated>>
    /\ UNCHANGED fragVars
    /\ UNCHANGED <<thrVars, extVars>>

\* time passes on the monotonic clock
Tick ==
    /\ \E t \in Instants : t > now /\ now' = t
    /\ UNCHANGED <<rconfig, poisoned, sessions, last_hourly_pattern, wall, last_call, issued, rotated>>
    /\ UNCHANGED fragVars
    /\ UNCHANGED <<thrVars, extVars>>

\* the wall clock shows another reading (it may be set back)
WallClock ==
    /\ \E w \in WallTimes : w # wall /\ wall' = w
    /\ UNCHANGED <<rconfig, poisoned, sessions, last_hourly_pattern, now, last_call, issued, rotated>>
    /\ UNCHANGED fragVars
    /\ UNCHANGED <<thrVars, extVars>>

NextReg ==
    \/ \E id \in SessionIds, end \in DrawEnds, pend \in DrawEnds :
          GetSessionParameters(id, end, pend)
    \/ \E id \in SessionIds, end \in DrawEnds, pend \in DrawEnds :
          /\ id \in DOMAIN sessions => sessions[id].rotation_count < MaxRotations
          /\ RotateSessionParameters(id, end, pend)
    \/ CleanupOldSessions
    \/ \E pend \in DrawEnds : GetRotationStats(pend)
    \/ \E pend \in DrawEnds : GetCurrentHourlyPattern(pend)
    \/ Tick
    \/ WallClock

RegSpec == InitReg /\ [][NextReg]_vars

\* a registry constructed by with_config from any configuration, in the
\* first second of an hour; the fragmenter is not used
InitCfg ==
    /\ rconfig \in OrderedRotationConfigs \cup ViolatedRotationConfigs
    /\ sessions = EmptyMap
    /\ wall = 1762300800
    /\ \E end \in DrawEnds : last_hourly_pattern = generate_hourly_pattern(wall, end)
    /\ now = 0
    /\ last_call = NoCall
    /\ issued = EmptyMap
    /\ rotated = EmptyMap
    /\ poisoned = FALSE
    /\ config = DefaultFragmentationConfig
    /\ api = "none"
    /\ handshake = <<>>
    /\ pc = "idle"
    /\ offset = 0
    /\ packets = <<>>
    /\ passes = 0
    /\ result = NoResult
    /\ tpc = [t \in Threads |-> "idle"]
    /\ tlocal = [t \in Threads |-> NoLocal]
    /\ holder = NoHolder
    /\ trace = <<>>
    /\ evader = NoEvader
    /\ SECURITY_STATE = None

\* the session operations within one hour of the wall clock
NextCfg ==
    \/ \E id \in SessionIds, end \in DrawEnds, pend \in DrawEnds :
          GetSessionParameters(id, end, pend)
    \/ \E id \in SessionIds, end \in DrawEnds, pend \in DrawEnds :
          /\ id \in DOMAIN sessions => sessions[id].rotation_count < MaxRotations
          /\ RotateSessionParameters(id, end, pend)
    \/ \E id \in SessionIds : ShouldRotateSession(id)
    \/ CleanupOldSessions
    \/ \E pend \in DrawEnds : GetRotationStats(pend)
    \/ Tick

CfgSpec == InitCfg /\ [][NextCfg]_vars

FragSpec == InitFrag /\ [][NextFrag]_vars

(***************************************************************************)
(* get_current_hourly_pattern, statement by statement, called by threads   *)
(***************************************************************************)
\* calls the threads make in all before the model stops following them
MaxCalls == 3

\* calls that have been entered and have not returned
InFlight == { t \in Threads : tpc[t] # "idle" }

\* a thread enters get_current_hourly_pattern
HpCall(t) ==
    /\ tpc[t] = "idle"
    /\ Len(trace) + Cardinality(InFlight) < MaxCalls
    /\ tpc' = [tpc EXCEPT ![t] = "hp_lock"]
    /\ UNCHANGED <<tlocal, holder, trace>>
    /\ UNCHANGED <<fragVars, regVars, extVars>>

\* mutation of HpLock: the guard is handed out while another thread holds it
HpLock_NoExclusion(t) ==
    /\ tpc[t] = "hp_lock"
    /\ holder' = [holder EXCEPT !.last_hourly_pattern = t]
    /\ tpc' = [tpc EXCEPT ![t] = "hp_generate"]
    /\ UNCHANGED <<tlocal, trace>>
    /\ UNCHANGED <<fragVars, regVars, extVars>>

\* let mut last_pattern = self.last_hourly_pattern.lock().unwrap(): the
\* thread waits until the mutex is free
HpLock(t) ==
    /\ tpc[t] = "hp_lock"
    /\ holder.last_hourly_pattern = "none"
    /\ holder' = [holder EXCEPT !.last_hourly_pattern = t]
    /\ tpc' = [tpc EXCEPT ![t] = "hp_generate"]
    /\ UNCHANGED <<tlocal, trace>>
    /\ UNCHANGED <<fragVars, regVars, extVars>>

\* let new_pattern = PatternRotator::generate_hourly_pattern(): the wall
\* clock is read here
HpGenerate(t, pend) ==
    /\ tpc[t] = "hp_generate"
    /\ tlocal' = [tlocal EXCEPT ![t].new_pattern = generate_hourly_pattern(wall, pend)]
    /\ tpc' = [tpc EXCEPT ![t] = "hp_compare"]
    /\ UNCHANGED <<holder, trace>>
    /\ UNCHANGED <<fragVars, regVars, extVars>>

\* mutation of HpCompare: the new pattern is stored whatever its hour
HpCompare_AlwaysStores(t) ==
    /\ tpc[t] = "hp_compare"
    /\ tlocal' = [tlocal EXCEPT ![t].differs = TRUE]
    /\ tpc' = [tpc EXCEPT ![t] = "hp_store"]
    /\ UNCHANGED <<holder, trace>>
    /\ UNCHANGED <<fragVars, regVars, extVars>>

\* if new_pattern.hour != last_pattern.hour
HpCompare(t) ==
    /\ tpc[t] = "hp_compare"
    /\ LET differs == tlocal[t].new_pattern.hour # last_hourly_pattern.hour
       IN /\ tlocal' = [tlocal EXCEPT ![t].differs = differs]
          /\ tpc' = [tpc EXCEPT ![t] = IF differs THEN "hp_store" ELSE "hp_return"]
    /\ UNCHANGED <<holder, trace>>
    /\ UNCHANGED <<fragVars, regVars, extVars>>

\* *last_pattern = new_pattern.clone()
HpStore(t) ==
    /\ tpc[t] = "hp_store"
    /\ last_hourly_pattern' = tlocal[t].new_pattern
    /\ tpc' = [tpc EXCEPT ![t] = "hp_return"]
    /\ UNCHANGED <<tlocal, holder, trace>>
    /\ UNCHANGED <<rconfig, sessions, now, wall, last_call, issued, rotated, poisoned>>
    /\ UNCHANGED <<fragVars, extVars>>

\* last_pattern.clone() is returned and the guard is dropped
HpReturn(t) ==
    /\ tpc[t] = "hp_return"
    /\ trace' = Append(trace, [thread |-> t,
                               hour |-> tlocal[t].new_pattern.hour,
                               stored |-> tlocal[t].differs,
                               ret |-> last_hourly_pattern])
    /\ holder' = [holder EXCEPT !.last_hourly_pattern = "none"]
    /\ tlocal' = [tlocal EXCEPT ![t] = NoLocal]
    /\ tpc' = [tpc EXCEPT ![t] = "idle"]
    /\ UNCHANGED <<fragVars, regVars, extVars>>

\* a registry constructed in the last second of an hour; no session
\* operation is made and the fragmenter is not used
InitPat ==
    /\ rconfig = DefaultPatternRotationConfig
    /\ sessions = EmptyMap
    /\ wall = 1762300799
    /\ \E end \in DrawEnds : last_hourly_pattern = generate_hourly_pattern(wall, end)
    /\ now = 0
    /\ last_call = NoCall
    /\ issued = EmptyMap
    /\ rotated = EmptyMap
    /\ poisoned = FALSE
    /\ config = DefaultFragmentationConfig
    /\ api = "none"
    /\ handshake = <<>>
    /\ pc = "idle"
    /\ offset = 0
    /\ packets = <<>>
    /\ passes = 0
    /\ result = NoResult
    /\ tpc = [t \in Threads |-> "idle"]
    /\ tlocal = [t \in Threads |-> NoLocal]
    /\ holder = NoHolder
    /\ trace = <<>>
    /\ evader = NoEvader
    /\ SECURITY_STATE = None

NextPat ==
    \/ \E t \in Threads : HpCall(t)
    \/ \E t \in Threads : HpLock(t)
    \/ \E t \in Threads, pend \in DrawEnds : HpGenerate(t, pend)
    \/ \E t \in Threads : HpCompare(t)
    \/ \E t \in Threads : HpStore(t)
    \/ \E t \in Threads : HpReturn(t)
    \/ WallClock

PatSpec == InitPat /\ [][NextPat]_vars

(***************************************************************************)
(* rotate_session_parameters, statement by statement, called by threads    *)
(***************************************************************************)
\* rotate_session_parameters calls the threads make in all before the model
\* stops following them
MaxRotateCalls == 2

\* a thread enters rotate_session_parameters(session_id)
RotCall(t, id) ==
    /\ tpc[t] = "idle"
    /\ Len(trace) + Cardinality(InFlight) < MaxRotateCalls
    /\ tpc' = [tpc EXCEPT ![t] = "rot_lock"]
    /\ tlocal' = [tlocal EXCEPT ![t].session_id = id]
    /\ UNCHANGED <<holder, trace>>
    /\ UNCHANGED <<fragVars, regVars, extVars>>

\* mutation of RotLock: the guard is handed out while another thread holds it
RotLock_NoExclusion(t) ==
    /\ tpc[t] = "rot_lock"
    /\ holder' = [holder EXCEPT !.sessions = t]
    /\ tpc' = [tpc EXCEPT ![t] = "rot_lookup"]
    /\ UNCHANGED <<tlocal, trace>>
    /\ UNCHANGED <<fragVars, regVars, extVars>>

\* let mut sessions = self.sessions.lock().unwrap(): the thread waits until
\* the mutex is free (it is never poisoned under the default configuration)
RotLock(t) ==
    /\ tpc[t] = "rot_lock"
    /\ holder.sessions = "none"
    /\ holder' = [holder EXCEPT !.sessions = t]
    /\ tpc' = [tpc EXCEPT ![t] = "rot_lookup"]
    /\ UNCHANGED <<tlocal, trace>>
    /\ UNCHANGED <<fragVars, regVars, extVars>>

\* if let Some(session) = sessions.get_mut(session_id)
RotLookup(t) ==
    /\ tpc[t] = "rot_lookup"
    /\ LET found == tlocal[t].session_id \in DOMAIN sessions
       IN /\ tlocal' = [tlocal EXCEPT ![t].found = found]
          /\ tpc' = [tpc EXCEPT ![t] = IF found THEN "rot_draw" ELSE "rot_return"]
    /\ UNCHANGED <<holder, trace>>
    /\ UNCHANGED <<fragVars, regVars, extVars>>

\* let new_params = SessionParameters { .. }
RotDraw(t, end) ==
    /\ tpc[t] = "rot_draw"
    /\ tlocal' = [tlocal EXCEPT ![t].new_params = NewSessionParameters(rconfig, end)]
    /\ tpc' = [tpc EXCEPT ![t] = "rot_parameters"]
    /\ UNCHANGED <<holder, trace>>
    /\ UNCHANGED <<fragVars, regVars, extVars>>

\* session.parameters = new_params.clone()
RotParameters(t) ==
    /\ tpc[t] = "rot_parameters"
    /\ sessions' = [sessions EXCEPT ![tlocal[t].session_id].parameters =
                                        tlocal[t].new_params]
    /\ tpc' = [tpc EXCEPT ![t] = "rot_last_rotation"]
    /\ UNCHANGED <<tlocal, holder, trace>>
    /\ UNCHANGED <<rconfig, last_hourly_pattern, now, wall, last_call, issued, rotated,
                   poisoned>>
    /\ UNCHANGED <<fragVars, extVars>>

\* session.last_rotation = Instant::now()
RotLastRotation(t) ==
    /\ tpc[t] = "rot_last_rotation"
    /\ sessions' = [sessions EXCEPT ![tlocal[t].session_id].last_rotation = now]
    /\ tlocal' = [tlocal EXCEPT ![t].last_rotation = now]
    /\ tpc' = [tpc EXCEPT ![t] = "rot_count"]
    /\ UNCHANGED <<holder, trace>>
    /\ UNCHANGED <<rconfig, last_hourly_pattern, now, wall, last_call, issued, rotated,
                   poisoned>>
    /\ UNCHANGED <<fragVars, extVars>>

\* session.rotation_count += 1 (far below the 32-bit limit within MaxCalls)
RotCount(t) ==
    /\ tpc[t] = "rot_count"
    /\ sessions' = [sessions EXCEPT ![tlocal[t].session_id].rotation_count =
                        sessions[tlocal[t].session_id].rotation_count + 1]
    /\ tpc' = [tpc EXCEPT ![t] = "rot_pattern"]
    /\ UNCHANGED <<tlocal, holder, trace>>
    /\ UNCHANGED <<rconfig, last_hourly_pattern, now, wall, last_call, issued, rotated,
                   poisoned>>
    /\ UNCHANGED <<fragVars, extVars>>

\* session.pattern_profile = self.get_current_hourly_pattern().pattern_id:
\* the nested call takes and drops the last_hourly_pattern mutex
RotPattern(t, pend) ==
    /\ tpc[t] = "rot_pattern"
    /\ holder.last_hourly_pattern = "none"
    /\ LET pattern == CurrentHourlyPattern(last_hourly_pattern,
                                           generate_hourly_pattern(wall, pend))
       IN /\ last_hourly_pattern' = pattern
          /\ sessions' = [sessions EXCEPT ![tlocal[t].session_id].pattern_profile =
                                              pattern.pattern_id]
          /\ tlocal' = [tlocal EXCEPT ![t].pattern_profile = pattern.pattern_id]
    /\ tpc' = [tpc EXCEPT ![t] = "rot_return"]
    /\ UNCHANGED <<holder, trace>>
    /\ UNCHANGED <<rconfig, now, wall, last_call, issued, rotated, poisoned>>
    /\ UNCHANGED <<fragVars, extVars>>

\* return Some(new_params), or None; the guard is dropped
RotReturn(t) ==
    /\ tpc[t] = "rot_return"
    /\ trace' = Append(trace, [thread |-> t,
                               session_id |-> tlocal[t].session_id,
                               ret |-> IF tlocal[t].found
                                       THEN Some(tlocal[t].new_params) ELSE None,
                               last_rotation |-> tlocal[t].last_rotation,
                               pattern_profile |-> tlocal[t].pattern_profile])
    /\ holder' = [holder EXCEPT !.sessions = "none"]
    /\ tlocal' = [tlocal EXCEPT ![t] = NoLocal]
    /\ tpc' = [tpc EXCEPT ![t] = "idle"]
    /\ UNCHANGED <<fragVars, regVars, extVars>>

\* get_session_parameters, called once before the threads start
RotSetup(id, end, pend) ==
    /\ InFlight = {}
    /\ trace = <<>>
    /\ evader = NoEvader
    /\ SECURITY_STATE = None
    /\ sessions = EmptyMap
    /\ GetSessionParameters(id, end, pend)

\* time passes while the threads run
RotTick ==
    /\ trace # <<>> \/ InFlight # {}
    /\ Tick

\* the wall clock advances while the threads run
RotWallClock ==
    /\ trace # <<>> \/ InFlight # {}
    /\ WallClock
    /\ wall' > wall

NextRot ==
    \/ \E id \in SessionIds, end \in DrawEnds, pend \in DrawEnds : RotSetup(id, end, pend)
    \/ \E t \in Threads, id \in SessionIds : RotCall(t, id)
    \/ \E t \in Threads : RotLock(t)
    \/ \E t \in Threads : RotLookup(t)
    \/ \E t \in Threads, end \in DrawEnds : RotDraw(t, end)
    \/ \E t \in Threads : RotParameters(t)
    \/ \E t \in Threads : RotLastRotation(t)
    \/ \E t \in Threads : RotCount(t)
    \/ \E t \in Threads, pend \in DrawEnds : RotPattern(t, pend)
    \/ \E t \in Threads : RotReturn(t)
    \/ RotTick
    \/ RotWallClock

RotSpec == InitPat /\ [][NextRot]_vars

(***************************************************************************)
(* The two mutexes: every public operation as the sequence of guards it    *)
(* takes and drops, called by threads                                      *)
(***************************************************************************)
\* calls the threads make in all before the model stops following them
MaxLockCalls == 2

\* the public operations of PatternRotator that take a mutex
LockingOps == {"get_session_parameters", "rotate_session_parameters",
               "should_rotate_session", "cleanup_old_sessions",
               "get_rotation_stats", "get_current_hourly_pattern",
               "create_signature_mask"}

\* the operations whose first statement is self.sessions.lock().unwrap()
TakesSessions(op) ==
    op \in {"get_session_parameters", "rotate_session_parameters",
            "should_rotate_session", "cleanup_old_sessions", "get_rotation_stats"}

\* whether the operation, holding the sessions guard, goes on to call
\* get_current_hourly_pattern: the create branch of get_session_parameters,
\* the Some branch of rotate_session_parameters, get_rotation_stats always
CallsHourlyPattern(op, found) ==
    \/ op = "get_session_parameters" /\ ~found
    \/ op = "rotate_session_parameters" /\ found
    \/ op = "get_rotation_stats"

\* a thread enters one of the operations
LkCall(t, op, id) ==
    /\ tpc[t] = "idle"
    /\ Len(trace) + Cardinality(InFlight) < MaxLockCalls
    /\ tlocal' = [tlocal EXCEPT ![t].op = op, ![t].session_id = id]
    /\ tpc' = [tpc EXCEPT ![t] = IF TakesSessions(op) THEN "lk_sessions"
                                 ELSE "lk_pattern"]
    /\ UNCHANGED <<holder, trace>>
    /\ UNCHANGED <<fragVars, regVars, extVars>>

\* mutation of LkSessions: the guard is handed out while another thread
\* holds it
LkSessions_NoExclusion(t) ==
    /\ tpc[t] = "lk_sessions"
    /\ holder' = [holder EXCEPT !.sessions = t]
    /\ tpc' = [tpc EXCEPT ![t] = "lk_lookup"]
    /\ UNCHANGED <<tlocal, trace>>
    /\ UNCHANGED <<fragVars, regVars, extVars>>

\* self.sessions.lock().unwrap(): the thread waits until the mutex is free
LkSessions(t) ==
    /\ tpc[t] = "lk_sessions"
    /\ holder.sessions = "none"
    /\ holder' = [holder EXCEPT !.sessions = t]
    /\ tpc' = [tpc EXCEPT ![t] = "lk_lookup"]
    /\ UNCHANGED <<tlocal, trace>>
    /\ UNCHANGED <<fragVars, regVars, extVars>>

\* sessions.get(session_id) / get_mut(session_id) and the branch taken
LkLookup(t) ==
    /\ tpc[t] = "lk_lookup"
    /\ LET found == tlocal[t].session_id \in DOMAIN sessions
       IN /\ tlocal' = [tlocal EXCEPT ![t].found = found]
          /\ tpc' = [tpc EXCEPT ![t] = IF CallsHourlyPattern(tlocal[t].op, found)
                                       THEN "lk_pattern" ELSE "lk_finish"]
    /\ UNCHANGED <<holder, trace>>
    /\ UNCHANGED <<fragVars, regVars, extVars>>

\* self.last_hourly_pattern.lock().unwrap() in get_current_hourly_pattern:
\* the thread waits until the mutex is free
LkPattern(t) ==
    /\ tpc[t] = "lk_pattern"
    /\ holder.last_hourly_pattern = "none"
    /\ holder' = [holder EXCEPT !.last_hourly_pattern = t]
    /\ tpc' = [tpc EXCEPT ![t] = "lk_pattern_held"]
    /\ UNCHANGED <<tlocal, trace>>
    /\ UNCHANGED <<fragVars, regVars, extVars>>

\* mutation of LkPatternHeld: get_current_hourly_pattern keeps its guard and
\* goes on to take the sessions mutex when its thread does not hold it
LkPatternHeld_ThenSessions(t, pend) ==
    /\ tpc[t] = "lk_pattern_held"
    /\ LET pattern == CurrentHourlyPattern(last_hourly_pattern,
                                           generate_hourly_pattern(wall, pend))
       IN /\ last_hourly_pattern' = pattern
          /\ tlocal' = [tlocal EXCEPT ![t].new_pattern = pattern]
    /\ holder' = holder
    /\ tpc' = [tpc EXCEPT ![t] = IF holder.sessions = t THEN "lk_finish"
                                 ELSE "lk_sessions"]
    /\ UNCHANGED trace
    /\ UNCHANGED <<rconfig, sessions, now, wall, last_call, issued, rotated, poisoned>>
    /\ UNCHANGED <<fragVars, extVars>>

\* the body of get_current_hourly_pattern under its guard, which is dropped
\* when it returns to the operation that called it
LkPatternHeld(t, pend) ==
    /\ tpc[t] = "lk_pattern_held"
    /\ LET pattern == CurrentHourlyPattern(last_hourly_pattern,
                                           generate_hourly_pattern(wall, pend))
       IN /\ last_hourly_pattern' = pattern
          /\ tlocal' = [tlocal EXCEPT ![t].new_pattern = pattern]
    /\ holder' = [holder EXCEPT !.last_hourly_pattern = "none"]
    /\ tpc' = [tpc EXCEPT ![t] = "lk_finish"]
    /\ UNCHANGED trace
    /\ UNCHANGED <<rconfig, sessions, now, wall, last_call, issued, rotated, poisoned>>
    /\ UNCHANGED <<fragVars, extVars>>

\* the rest of the operation: what it has written to the map under the
\* sessions guard (insert, the four assignments of a rotation, retain), then
\* its return, at which every guard the thread holds is dropped
LkFinish(t, end) ==
    /\ tpc[t] = "lk_finish"
    /\ LET op == tlocal[t].op
           id == tlocal[t].session_id
           params == NewSessionParameters(rconfig, end)
           pattern_id == tlocal[t].new_pattern.pattern_id
       IN IF op = "get_session_parameters" /\ ~tlocal[t].found
          THEN /\ sessions' = Insert(sessions, id,
                                     NewSessionState(id, now, params, pattern_id))
               /\ issued' = Insert(issued, id, params)
               /\ rotated' = Insert(rotated, id, 0)
          ELSE IF op = "rotate_session_parameters" /\ tlocal[t].found
          THEN /\ sessions' = [sessions EXCEPT ![id] =
                                  RotatedSessionState(sessions[id], now, params, pattern_id)]
               /\ issued' = [issued EXCEPT ![id] = params]
               /\ rotated' = [rotated EXCEPT ![id] = rotated[id] + 1]
          ELSE IF op = "cleanup_old_sessions"
          THEN /\ sessions' = [k \in Retained(sessions, now) |-> sessions[k]]
               /\ issued' = [k \in Retained(sessions, now) |-> issued[k]]
               /\ rotated' = [k \in Retained(sessions, now) |-> rotated[k]]
          ELSE UNCHANGED <<sessions, issued, rotated>>
    /\ holder' = [m \in DOMAIN holder |-> IF holder[m] = t THEN "none" ELSE holder[m]]
    /\ trace' = Append(trace, [thread |-> t, op |-> tlocal[t].op])
    /\ tlocal' = [tlocal EXCEPT ![t] = NoLocal]
    /\ tpc' = [tpc EXCEPT ![t] = "idle"]
    /\ UNCHANGED <<rconfig, last_hourly_pattern, now, wall, last_call, poisoned>>
    /\ UNCHANGED <<fragVars, extVars>>

\* the steps of a thread inside a call
LkStep(t) ==
    \/ LkSessions(t)
    \/ LkLookup(t)
    \/ LkPattern(t)
    \/ \E pend \in DrawEnds : LkPatternHeld(t, pend)
    \/ \E end \in DrawEnds : LkFinish(t, end)

NextLock ==
    \/ \E t \in Threads, op \in LockingOps, id \in SessionIds : LkCall(t, op, id)
    \/ \E t \in Threads : LkStep(t)

\* the scheduler is fair to every thread: a thread that can take a step
\* (a free mutex included) is not passed over forever
LockSpec == InitPat /\ [][NextLock]_vars /\ \A t \in Threads : WF_vars(LkStep(t))

(***************************************************************************)
(* PatternRotator: every public operation, the calls serialized by the     *)
(* caller                                                                  *)
(***************************************************************************)
\* rotations of one session this specification follows
MaxSerialRotations == 2

\* the os_profile arguments: the three named profiles and any other string
OsProfiles == {"windows", "linux", "macos", "other"}

\* mutation of tcp_options: "linux" is given the "windows" bytes
tcp_options_LinuxAsWindows(os_profile) ==
    CASE os_profile \in {"windows", "linux"} ->
           <<2, 4, 5, 180, 1, 3, 3, 6, 2, 2, 0>>
      [] os_profile = "macos" ->
           <<2, 4, 5, 180, 1, 3, 3, 5, 4, 2, 0, 0>>
      [] OTHER ->
           <<2, 4, 5, 180, 1, 3, 3, 6>>

\* the match of generate_tcp_options
tcp_options(os_profile) ==
    CASE os_profile = "windows" ->
           <<2, 4, 5, 180, 1, 3, 3, 6, 2, 2, 0>>
      [] os_profile = "linux" ->
           <<2, 4, 5, 180, 4, 2, 0, 0, 8, 10, 0, 0, 0, 0, 0, 0, 0, 0, 1, 3, 3, 7>>
      [] os_profile = "macos" ->
           <<2, 4, 5, 180, 1, 3, 3, 5, 4, 2, 0, 0>>
      [] OTHER ->
           <<2, 4, 5, 180, 1, 3, 3, 6>>

\* PatternRotator::generate_tcp_options: no lock is taken, no field is read
GenerateTcpOptions(os_profile) ==
    /\ last_call' = Returned("generate_tcp_options", os_profile, FALSE,
                             tcp_options(os_profile))
    /\ UNCHANGED <<rconfig, poisoned, sessions, last_hourly_pattern, now, wall, issued, rotated>>
    /\ UNCHANGED fragVars
    /\ UNCHANGED <<thrVars, extVars>>

\* PatternRotator::random_padding_ratio, in hundredths: 0.0 or 0.3
random_padding_ratio(end) == Draw(0, 30, end)

\* mutation of SignatureMask: the sequence randomizer is a draw of its own
SignatureMask_FreshSequence(pattern, end) ==
    [sequence_randomizer |-> Draw(0, 2147483647, end),
     packet_order_shuffle |-> pattern.tcp_flags_preset,
     timing_jitter |-> pattern.urg_pointer_enabled,
     payload_padding_ratio |-> random_padding_ratio(end)]

\* SignatureMask { .. }
SignatureMask(pattern, end) ==
    [sequence_randomizer |-> pattern.initial_sequence_offset,
     packet_order_shuffle |-> pattern.tcp_flags_preset,
     timing_jitter |-> pattern.urg_pointer_enabled,
     payload_padding_ratio |-> random_padding_ratio(end)]

\* PatternRotator::create_signature_mask: only the pattern slot is locked
CreateSignatureMask(pend, end) ==
    /\ LET pattern == CurrentHourlyPattern(last_hourly_pattern,
                                           generate_hourly_pattern(wall, pend))
       IN /\ last_hourly_pattern' = pattern
          /\ last_call' = Returned("create_signature_mask", "", FALSE,
                                   SignatureMask(pattern, end))
    /\ UNCHANGED <<rconfig, poisoned, sessions, now, wall, issued, rotated>>
    /\ UNCHANGED fragVars
    /\ UNCHANGED <<thrVars, extVars>>

\* a registry constructed by new(), in the last second of an hour; the
\* fragmenter is not used
InitSerial ==
    /\ rconfig \in PatternRotationConfigs
    /\ sessions = EmptyMap
    /\ wall = 1762300799
    /\ \E end \in DrawEnds : last_hourly_pattern = generate_hourly_pattern(wall, end)
    /\ now = 0
    /\ last_call = NoCall
    /\ issued = EmptyMap
    /\ rotated = EmptyMap
    /\ poisoned = FALSE
    /\ config = DefaultFragmentationConfig
    /\ api = "none"
    /\ handshake = <<>>
    /\ pc = "idle"
    /\ offset = 0
    /\ packets = <<>>
    /\ passes = 0
    /\ result = NoResult
    /\ tpc = [t \in Threads |-> "idle"]
    /\ tlocal = [t \in Threads |-> NoLocal]
    /\ holder = NoHolder
    /\ trace = <<>>
    /\ evader = NoEvader
    /\ SECURITY_STATE = None

\* the wall clock passes into the next hour
HourBoundary ==
    /\ wall = 1762300799
    /\ wall' = 1762300800
    /\ UNCHANGED <<rconfig, poisoned, sessions, last_hourly_pattern, now, last_call, issued, rotated>>
    /\ UNCHANGED fragVars
    /\ UNCHANGED <<thrVars, extVars>>

\* one call at a time, each running to its return before the next starts,
\* within one hour of the wall clock
NextSerial ==
    \/ \E id \in SessionIds, end \in DrawEnds, pend \in DrawEnds :
          GetSessionParameters(id, end, pend)
    \/ \E id \in SessionIds, end \in DrawEnds, pend \in DrawEnds :
          /\ id \in DOMAIN sessions => sessions[id].rotation_count < MaxSerialRotations
          /\ RotateSessionParameters(id, end, pend)
    \/ \E id \in SessionIds : ShouldRotateSession(id)
    \/ CleanupOldSessions
    \/ \E pend \in DrawEnds : GetRotationStats(pend)
    \/ \E pend \in DrawEnds : GetCurrentHourlyPattern(pend)
    \/ \E pend \in DrawEnds, end \in DrawEnds : CreateSignatureMask(pend, end)
    \/ \E os_profile \in OsProfiles : GenerateTcpOptions(os_profile)
    \/ Tick

SerialSpec == InitSerial /\ [][NextSerial]_vars

\* every public operation and both clocks: time passes and the hour advances
\* between the calls
NextFrame ==
    \/ \E id \in SessionIds, end \in DrawEnds, pend \in DrawEnds :
          GetSessionParameters(id, end, pend)
    \/ \E id \in SessionIds, end \in DrawEnds, pend \in DrawEnds :
          /\ id \in DOMAIN sessions => sessions[id].rotation_count < MaxRotations
          /\ RotateSessionParameters(id, end, pend)
    \/ \E id \in SessionIds : ShouldRotateSession(id)
    \/ CleanupOldSessions
    \/ \E pend \in DrawEnds : GetRotationStats(pend)
    \/ \E pend \in DrawEnds : GetCurrentHourlyPattern(pend)
    \/ \E pend \in DrawEnds, end \in DrawEnds : CreateSignatureMask(pend, end)
    \/ \E os_profile \in OsProfiles : GenerateTcpOptions(os_profile)
    \/ Tick
    \/ HourBoundary

FrameSpec == InitSerial /\ [][NextFrame]_vars

\* a registry that holds one session which has been rotated 2^32 - 2 times,
\* built in either profile; the fragmenter is not used
InitWrap ==
    /\ rconfig \in PatternRotationConfigs
    /\ wall = 1762300799
    /\ \E end \in DrawEnds : last_hourly_pattern = generate_hourly_pattern(wall, end)
    /\ \E end \in DrawEnds :
          /\ sessions = Insert(EmptyMap, "s1",
                 [NewSessionState("s1", 0, NewSessionParameters(rconfig, end),
                                  last_hourly_pattern.pattern_id)
                     EXCEPT !.rotation_count = U32_MAX - 1])
          /\ issued = Insert(EmptyMap, "s1", NewSessionParameters(rconfig, end))
    /\ rotated = Insert(EmptyMap, "s1", U32_MAX - 1)
    /\ now = 0
    /\ last_call = NoCall
    /\ poisoned = FALSE
    /\ config = DefaultFragmentationConfig
    /\ api = "none"
    /\ handshake = <<>>
    /\ pc = "idle"
    /\ offset = 0
    /\ packets = <<>>
    /\ passes = 0
    /\ result = NoResult
    /\ tpc = [t \in Threads |-> "idle"]
    /\ tlocal = [t \in Threads |-> NoLocal]
    /\ holder = NoHolder
    /\ trace = <<>>
    /\ evader = NoEvader
    /\ SECURITY_STATE = None

\* the session operations on that registry; a session is followed for
\* MaxRotations rotations past 0
NextWrap ==
    \/ \E id \in SessionIds, end \in DrawEnds, pend \in DrawEnds :
          GetSessionParameters(id, end, pend)
    \/ \E id \in SessionIds, end \in DrawEnds, pend \in DrawEnds :
          /\ id \in DOMAIN sessions => sessions[id].rotation_count # MaxRotations
          /\ RotateSessionParameters(id, end, pend)
    \/ \E id \in SessionIds : ShouldRotateSession(id)
    \/ \E pend \in DrawEnds : GetRotationStats(pend)
    \/ Tick
    \/ HourBoundary

WrapSpec == InitWrap /\ [][NextWrap]_vars

\* configurations with every combination of the three randomization flags,
\* over the default ranges and over ranges that leave out the fixed values
\* 65535 and 64
ToggledRotationConfigs ==
    { [cfg EXCEPT !.randomize_tcp_window = w,
                  !.randomize_ttl = t,
                  !.randomize_packet_timing = v] :
        cfg \in { DefaultPatternRotationConfig,
                  PatternRotationConfig(1, TRUE, TRUE, <<1024, 60000>>, <<65, 128>>,
                                        <<10, 500>>) },
        w \in BOOLEAN, t \in BOOLEAN, v \in BOOLEAN }

\* a registry constructed by with_config with the flags on or off; the
\* fragmenter is not used
InitToggled ==
    /\ rconfig \in ToggledRotationConfigs
    /\ sessions = EmptyMap
    /\ wall = 1762300800
    /\ \E end \in DrawEnds : last_hourly_pattern = generate_hourly_pattern(wall, end)
    /\ now = 0
    /\ last_call = NoCall
    /\ issued = EmptyMap
    /\ rotated = EmptyMap
    /\ poisoned = FALSE
    /\ config = DefaultFragmentationConfig
    /\ api = "none"
    /\ handshake = <<>>
    /\ pc = "idle"
    /\ offset = 0
    /\ packets = <<>>
    /\ passes = 0
    /\ result = NoResult
    /\ tpc = [t \in Threads |-> "idle"]
    /\ tlocal = [t \in Threads |-> NoLocal]
    /\ holder = NoHolder
    /\ trace = <<>>
    /\ evader = NoEvader
    /\ SECURITY_STATE = None

\* the two operations that generate session parameters
NextToggled ==
    \/ \E id \in SessionIds, end \in DrawEnds, pend \in DrawEnds :
          GetSessionParameters(id, end, pend)
    \/ \E id \in SessionIds, end \in DrawEnds, pend \in DrawEnds :
          /\ id \in DOMAIN sessions => sessions[id].rotation_count < MaxRotations
          /\ RotateSessionParameters(id, end, pend)

ToggledSpec == InitToggled /\ [][NextToggled]_vars


(***************************************************************************)
(* Properties of the fragmenter                                            *)
(***************************************************************************)
\* the buffer passes both checks of fragment_client_hello
Accepted == pc # "idle" /\ ValidationError(handshake) = ""

\* C1: whenever fragment_client_hello (or fragment_with_ipd) returns fragments,
\* concatenating their payloads in order gives the input buffer byte for
\* byte; during a pass the fragments pushed so far cover exactly the first
\* `offset` bytes.
C1_FragmentsCoverInput ==
    /\ result.kind = "Ok" =>
          /\ reassemble_fragments(Payloads(result.packets)) = handshake
          /\ total_size(result.packets) = Len(handshake)
    /\ pc = "loop" =>
          reassemble_fragments(Payloads(packets)) = SubSeq(handshake, 1, offset)

C1_Witness ==
    /\ result.kind = "Ok"
    /\ Len(result.packets) >= 2
    /\ ~config.preserve_record_boundary
    /\ ~config.randomize_delays

\* C2: under the default configuration (sizes [100, 500],
\* preserve_record_boundary on) every call on a buffer that passes validation returns at least one
\* fragment, the payload lengths sum to the buffer length, and no draw is
\* made over an empty range (no panic).
C2_DefaultConfigSucceeds ==
    (config = DefaultFragmentationConfig /\ Accepted)
    => /\ result.kind # "Panic"
       /\ pc = "done" =>
            /\ result.kind = "Ok"
            /\ Len(result.packets) >= 1
            /\ total_size(result.packets) = Len(handshake)

\* every pass a call can make on a buffer of `len` bytes ends in the
\* degenerate case: the first draw can only be the whole over-long buffer
PassForcedToRefragment(cfg, len) ==
    /\ FragmentSizeRange(cfg, 0, len) = {len}
    /\ len > cfg.max_fragment_size

\* C3: the call terminates: every loop iteration strictly increases the
\* offset, and the degenerate-case retry is never taken when the pass it
\* starts can only end in the same retry.
C3_Terminates ==
    [][ /\ (pc = "loop" /\ Len(packets') = Len(packets) + 1) => offset' > offset
        /\ (pc = "loop" /\ offset >= Len(handshake) /\ pc' = "loop")
              => ~PassForcedToRefragment(config, Len(handshake)) ]_vars

\* the buffers the claim says are rejected
C4_Rejected(data) ==
    \/ Len(data) < 43
    \/ data[1] # 22
    \/ data[2] # 3
    \/ (data[3] # 3 /\ data[3] # 4)
    \/ data[6] # 1

\* C4: a finished call returned an error exactly when the buffer is shorter
\* than 43 bytes or one of the four markers is wrong; an error carries no
\* fragment; the error is the same through either entry point (it depends
\* on the buffer alone); <<255, 255, 255>> is rejected.
C4_ErrorExactlyOnInvalid ==
    pc = "done" =>
        /\ (result.kind = "Err") <=> C4_Rejected(handshake)
        /\ result.kind = "Err" =>
              /\ result.packets = <<>>
              /\ packets = <<>>
              /\ result.msg = (IF Len(handshake) >= 6
                                    /\ handshake[1] = 22 /\ handshake[2] = 3
                                    /\ handshake[3] \in {3, 4} /\ handshake[6] = 1
                               THEN "ClientHello too short"
                               ELSE "Not a TLS ClientHello packet")
        /\ handshake = <<255, 255, 255>> => result.kind = "Err"

C4_Witness ==
    /\ pc = "done"
    /\ api = "fragment_with_ipd"
    /\ result.kind = "Err"
    /\ Len(handshake) = 43

\* C5: in every result, each fragment after the first has a payload length
\* within [min_fragment_size, max_fragment_size]; under
\* preserve_record_boundary the first has a length within [150, 200], or the
\* buffer length when the buffer is shorter than 150 bytes.
C5_FragmentSizesInRange ==
    result.kind = "Ok" =>
        /\ \A i \in 2..Len(result.packets) :
              /\ Len(result.packets[i].data) >= config.min_fragment_size
              /\ Len(result.packets[i].data) <= config.max_fragment_size
        /\ config.preserve_record_boundary =>
              \/ Len(result.packets[1].data) \in 150..200
              \/ /\ Len(handshake) < 150
                 /\ Len(result.packets[1].data) = Len(handshake)

C5_Witness ==
    /\ result.kind = "Ok"
    /\ config.preserve_record_boundary
    /\ Len(result.packets) >= 2
    /\ Len(result.packets[Len(result.packets)].data) = config.min_fragment_size

C7_IpdDelays ==
    (api = "fragment_with_ipd" /\ result.kind = "Ok") =>
        /\ result.packets[1].delay_ms = 0
        /\ \A i \in 2..Len(result.packets) :
              result.packets[i].delay_ms >= config.min_delay_ms
        /\ Payloads(result.packets) = Payloads(packets)

C7_Witness ==
    /\ api = "fragment_with_ipd"
    /\ result.kind = "Ok"
    /\ Len(result.packets) >= 2
    /\ packets[1].delay_ms > 0
    /\ config.randomize_delays

\* C8: in every result of fragment_with_ipd with more than one fragment,
\* each fragment after the first has a strictly positive delay.
C8_IpdLaterDelaysPositive ==
    (api = "fragment_with_ipd" /\ result.kind = "Ok" /\ Len(result.packets) > 1) =>
        \A i \in 2..Len(result.packets) : result.packets[i].delay_ms > 0


\* C23: fragment_client_hello never returns a result that consists of
\* exactly one fragment longer than max_fragment_size: a pass that ends with
\* such a fragment is discarded (nothing is returned, the fragments are
\* dropped) and the fragmentation starts again at offset 0.
C23_SingleOverlongNotReturned ==
    /\ [](result.kind = "Ok" /\ Len(result.packets) = 1
             => Len(result.packets[1].data) <= config.max_fragment_size)
    /\ [][ ( /\ pc = "loop"
             /\ offset >= Len(handshake)
             /\ Len(packets) = 1
             /\ Len(packets[1].data) > config.max_fragment_size )
           => /\ result' = result
              /\ pc' = "loop"
              /\ packets' = <<>>
              /\ offset' = 0
              /\ handshake' = handshake ]_vars

\* a first pass ended with the whole over-long buffer as one fragment, and
\* the second pass returned two fragments
C23_Witness ==
    /\ result.kind = "Ok"
    /\ passes = 2
    /\ Len(result.packets) = 2
    /\ Len(handshake) > config.max_fragment_size
    /\ config.preserve_record_boundary

\* C24 as stated: nothing is retried internally: one call to
\* fragment_client_hello makes at most one fragmentation pass over the buffer
\* before it returns, and every failure is returned to the immediate caller
\* (a rejected buffer is returned as Err without a pass).
C24_AtMostOnePass ==
    /\ passes <= 1
    /\ result.kind = "Err" => passes = 0 /\ pc = "done"

\* C24, amended: a call to fragment_client_hello starts a further
\* fragmentation pass only when the pass before it ended with exactly one
\* fragment longer than max_fragment_size, never after a failure; every
\* failure is returned to the immediate caller: a rejected buffer as Err by
\* the step that enters the call, before any pass, and a returned call is
\* not resumed.
C24_RetryOnlyOnSingleOverlong ==
    [][ /\ (pc = "loop" /\ pc' = "loop" /\ packets' = <<>>)
            => /\ offset >= Len(handshake)
               /\ Len(packets) = 1
               /\ Len(packets[1].data) > config.max_fragment_size
               /\ result = NoResult
               /\ result' = NoResult
               /\ passes' >= passes
        /\ (result'.kind = "Err" /\ result' # result)
            => /\ pc = "idle"
               /\ pc' = "done"
               /\ passes' = 0
               /\ result'.msg = ValidationError(handshake')
        /\ pc = "done" => pc' = "done" /\ result' = result ]_vars

\* fragment_with_ipd has returned fragments that the second pass of its
\* fragment_client_hello call produced
C24_Witness ==
    /\ api = "fragment_with_ipd"
    /\ result.kind = "Ok"
    /\ passes = 2
    /\ Len(result.packets) >= 2

\* C25: in every result of fragment_client_hello, with randomize_delays
\* enabled every fragment, the first included, has a delay within
\* [min_delay_ms, max_delay_ms]; with randomize_delays disabled the first
\* fragment has delay 0 and every later fragment has a delay within
\* [min_delay_ms, max_delay_ms].
C25_DelaysFollowToggle ==
    (result.kind = "Ok" /\ api = "fragment_client_hello") =>
        \A i \in 1..Len(result.packets) :
            IF i = 1 /\ ~config.randomize_delays
            THEN result.packets[i].delay_ms = 0
            ELSE /\ result.packets[i].delay_ms >= config.min_delay_ms
                 /\ result.packets[i].delay_ms <= config.max_delay_ms

\* the sequence get_stats was called on
StatsArgument == IF last_call.id = "result" THEN result.packets ELSE <<>>

\* the payload lengths of a fragment sequence
PayloadLengths(pkts) == { Len(pkts[i].data) : i \in 1..Len(pkts) }

\* C30: get_stats reports num_packets equal to the sequence length,
\* total_size equal to the sum of the payload lengths, min_size and max_size
\* equal to the smallest and the largest payload length, avg_size equal to
\* total_size divided by the count (integer division), the total delay equal
\* to the sum of the delays and the average delay to that total divided by
\* the count, and all seven values 0 for the empty sequence; on a
\* fragment_client_hello result total_size is the length of the input
\* buffer.
C30_StatsOfFragments ==
    last_call.op = "get_stats" =>
        /\ ~last_call.panicked
        /\ LET pkts == StatsArgument
               stats == last_call.ret
           IN /\ stats.num_packets = Len(pkts)
              /\ stats.total_size = Len(reassemble_fragments(Payloads(pkts)))
              /\ last_call.id = "result" => stats.total_size = Len(handshake)
              /\ pkts # <<>> =>
                    /\ stats.min_size \in PayloadLengths(pkts)
                    /\ stats.max_size \in PayloadLengths(pkts)
                    /\ \A l \in PayloadLengths(pkts) :
                          stats.min_size <= l /\ l <= stats.max_size
                    /\ stats.avg_size * Len(pkts) <= stats.total_size
                    /\ stats.total_size < (stats.avg_size + 1) * Len(pkts)
                    /\ u32_hi(stats.total_delay_ms) = delay_sum_hi(pkts, 0)
                    /\ u32_lo(stats.total_delay_ms)
                          = Sum([i \in 1..Len(pkts) |-> u32_lo(pkts[i].delay_ms)],
                                1..Len(pkts)) % 65536
                    /\ stats.avg_delay_ms = u32_div(stats.total_delay_ms, Len(pkts))
              /\ pkts = <<>> =>
                    stats = [num_packets |-> 0, total_size |-> 0, min_size |-> 0,
                             max_size |-> 0, avg_size |-> 0, total_delay_ms |-> 0,
                             avg_delay_ms |-> 0]

(***************************************************************************)
(* Properties of the registry                                              *)
(***************************************************************************)
\* C9: get_session_parameters is idempotent on a stored session: a call on a
\* stored identifier returns the parameters handed out by the call that
\* created the entry (or by its latest rotation), which are the stored ones,
\* and leaves the whole entry (rotation counter, creation timestamp,
\* last-rotation timestamp, pattern identifier, parameters) and the hourly
\* cache unchanged; the creating call returns what it stores.
C9_GetIsIdempotent ==
    [][ \A id \in SessionIds :
          ( /\ last_call'.op = "get_session_parameters"
            /\ last_call'.id = id
            /\ \E end \in DrawEnds, pend \in DrawEnds :
                  GetSessionParameters(id, end, pend) )
          => IF id \in DOMAIN sessions
             THEN /\ last_call'.ret = issued[id]
                  /\ last_call'.ret = sessions[id].parameters
                  /\ sessions' = sessions
                  /\ issued' = issued
                  /\ last_hourly_pattern' = last_hourly_pattern
             ELSE /\ id \in DOMAIN sessions'
                  /\ last_call'.ret = sessions'[id].parameters
                  /\ issued'[id] = last_call'.ret ]_vars

\* a get_session_parameters call found its identifier stored, later than the
\* entry was created, the entry never having been rotated
C9_Witness ==
    /\ last_call.op = "get_session_parameters"
    /\ last_call.hit
    /\ last_call.id \in DOMAIN sessions
    /\ sessions[last_call.id].rotation_count = 0
    /\ now > sessions[last_call.id].created_at
    /\ last_call.ret = sessions[last_call.id].parameters

\* C10: rotate_session_parameters on a stored identifier increments its
\* rotation counter by exactly 1, sets its last-rotation timestamp to a value
\* not earlier than the previous one, re-stamps its pattern identifier from
\* the hourly cache (the pattern of the current hour), stores the freshly
\* drawn parameters and returns a copy of them; the creation timestamp, the
\* session_id and every other session stay as they were.
C10_RotateUpdatesEntry ==
    [][ \A id \in SessionIds :
          ( /\ id \in DOMAIN sessions
            /\ last_call'.op = "rotate_session_parameters"
            /\ last_call'.id = id
            /\ \E end \in DrawEnds, pend \in DrawEnds :
                  RotateSessionParameters(id, end, pend) )
          => /\ DOMAIN sessions' = DOMAIN sessions
             /\ sessions'[id].rotation_count = sessions[id].rotation_count + 1
             /\ sessions'[id].last_rotation >= sessions[id].last_rotation
             /\ sessions'[id].last_rotation = now
             /\ sessions'[id].pattern_profile = last_hourly_pattern'.pattern_id
             /\ sessions'[id].pattern_profile = PatternId(HourOf(wall))
             /\ last_call'.ret = Some(sessions'[id].parameters)
             /\ \E end \in DrawEnds :
                   sessions'[id].parameters = NewSessionParameters(rconfig, end)
             /\ sessions'[id].created_at = sessions[id].created_at
             /\ sessions'[id].session_id = sessions[id].session_id
             /\ \A other \in DOMAIN sessions \ {id} : sessions'[other] = sessions[other] ]_vars

\* a rotation has returned for a session created earlier, in another hour,
\* next to another stored session
C10_Witness ==
    /\ last_call.op = "rotate_session_parameters"
    /\ last_call.hit
    /\ last_call.id \in DOMAIN sessions
    /\ DOMAIN sessions = SessionIds
    /\ sessions[last_call.id].rotation_count = 1
    /\ sessions[last_call.id].last_rotation > sessions[last_call.id].created_at
    /\ \E other \in SessionIds :
          sessions[other].pattern_profile # sessions[last_call.id].pattern_profile

\* C11: rotate_session_parameters on an identifier that is not stored returns
\* "not found" (None) and leaves the session map exactly as it was, the
\* hourly cache included; right after such a call the identifier is still
\* not stored, and a get_session_parameters on it then creates the entry with
\* rotation counter 0.
C11_RotateUnknownIsNoop ==
    [][ \A id \in SessionIds :
          /\ ( /\ id \notin DOMAIN sessions
               /\ last_call'.op = "rotate_session_parameters"
               /\ last_call'.id = id
               /\ \E end \in DrawEnds, pend \in DrawEnds :
                     RotateSessionParameters(id, end, pend) )
             => /\ last_call'.ret = None
                /\ ~last_call'.hit
                /\ sessions' = sessions
                /\ last_hourly_pattern' = last_hourly_pattern
          /\ ( /\ last_call.op = "rotate_session_parameters"
               /\ last_call.id = id
               /\ ~last_call.hit
               /\ last_call'.op = "get_session_parameters"
               /\ last_call'.id = id
               /\ \E end \in DrawEnds, pend \in DrawEnds :
                     GetSessionParameters(id, end, pend) )
             => /\ id \notin DOMAIN sessions
                /\ ~last_call'.hit
                /\ DOMAIN sessions' = DOMAIN sessions \cup {id}
                /\ sessions'[id].rotation_count = 0 ]_vars

\* a rotation has returned "not found" for an identifier while another
\* session is stored and has been rotated
C11_Witness ==
    /\ last_call.op = "rotate_session_parameters"
    /\ ~last_call.hit
    /\ last_call.ret = None
    /\ last_call.id \notin DOMAIN sessions
    /\ \E other \in DOMAIN sessions : sessions[other].rotation_count = 1

\* C12 as stated: under every configuration with min <= max, every stored
\* session has min_tcp_window <= window <= max_tcp_window, min_ttl <= ttl <=
\* max_ttl and min_rtt_ms <= rtt <= max_rtt_ms, configurations with window or
\* TTL randomization disabled included.
C12_ParametersWithinBounds ==
    RangesOrdered(rconfig) =>
        \A id \in DOMAIN sessions :
            LET p == sessions[id].parameters
            IN /\ rconfig.min_tcp_window <= p.tcp_window_size
               /\ p.tcp_window_size <= rconfig.max_tcp_window
               /\ rconfig.min_ttl <= p.ttl
               /\ p.ttl <= rconfig.max_ttl
               /\ rconfig.min_rtt_ms <= p.initial_rtt_ms
               /\ p.initial_rtt_ms <= rconfig.max_rtt_ms

\* C12, amended: under every configuration with min <= max, every stored
\* session has its RTT within [min_rtt_ms, max_rtt_ms]; its window within
\* [min_tcp_window, max_tcp_window] when window randomization is enabled and
\* equal to 65535 when it is disabled, whatever the bounds; its TTL within
\* [min_ttl, max_ttl] when TTL randomization is enabled and equal to 64 when
\* it is disabled, whatever the bounds.
C12_RandomizedParametersWithinBounds ==
    RangesOrdered(rconfig) =>
        \A id \in DOMAIN sessions :
            LET p == sessions[id].parameters
            IN /\ rconfig.min_rtt_ms <= p.initial_rtt_ms
               /\ p.initial_rtt_ms <= rconfig.max_rtt_ms
               /\ IF rconfig.randomize_tcp_window
                  THEN /\ rconfig.min_tcp_window <= p.tcp_window_size
                       /\ p.tcp_window_size <= rconfig.max_tcp_window
                  ELSE p.tcp_window_size = 65535
               /\ IF rconfig.randomize_ttl
                  THEN /\ rconfig.min_ttl <= p.ttl
                       /\ p.ttl <= rconfig.max_ttl
                  ELSE p.ttl = 64

\* a session created and rotated with randomization disabled stores the fixed
\* window above max_tcp_window and the fixed TTL below min_ttl
C12_Witness ==
    /\ RangesOrdered(rconfig)
    /\ ~rconfig.randomize_tcp_window
    /\ ~rconfig.randomize_ttl
    /\ \E id \in DOMAIN sessions :
          /\ sessions[id].rotation_count = 1
          /\ sessions[id].parameters.tcp_window_size > rconfig.max_tcp_window
          /\ sessions[id].parameters.ttl < rconfig.min_ttl

(***************************************************************************)
(* Properties of the hourly cache                                          *)
(***************************************************************************)
\* C13 as stated: any two get_current_hourly_pattern calls that computed the
\* same hour index returned identical patterns, for every interleaving of
\* the callers and every sequence of clock readings; a call that computed
\* another hour than the cached one returned a pattern with an identifier
\* different from the one it replaced.
C13_SameHourSamePattern ==
    /\ \A i \in 1..Len(trace), j \in 1..Len(trace) :
          trace[i].hour = trace[j].hour => trace[i].ret = trace[j].ret
    /\ \A t \in Threads :
          tpc[t] = "hp_store" =>
              tlocal[t].new_pattern.pattern_id # last_hourly_pattern.pattern_id

\* C13, amended: two get_current_hourly_pattern calls that computed the same
\* hour index returned identical patterns when no call between them (in
\* order of return) computed another hour index, for every interleaving and
\* every sequence of clock readings; every call returned a pattern of the
\* hour it computed; a call that computed another hour than the cached one
\* returned a pattern with a different identifier.
C13_SameHourRunSamePattern ==
    /\ \A i \in 1..Len(trace) :
          /\ trace[i].ret.hour = trace[i].hour
          /\ trace[i].ret.pattern_id = PatternId(trace[i].hour)
          /\ i > 1 =>
                IF trace[i].hour = trace[i - 1].hour
                THEN trace[i].ret = trace[i - 1].ret /\ ~trace[i].stored
                ELSE trace[i].ret.pattern_id # trace[i - 1].ret.pattern_id
                     /\ trace[i].stored
    /\ \A t \in Threads :
          tpc[t] = "hp_store" =>
              tlocal[t].new_pattern.pattern_id # last_hourly_pattern.pattern_id

\* three calls have returned: the clock was set back to the first hour after
\* a call in the second, and the third call returned other random fields
\* than the first for the same hour
C13_Witness ==
    /\ Len(trace) = 3
    /\ trace[1].hour = trace[3].hour
    /\ trace[2].hour # trace[1].hour
    /\ trace[1].ret # trace[3].ret
    /\ trace[1].thread # trace[2].thread

\* the calls that have returned read the wall clock in hours that never
\* decrease
ClockReadingsAscend ==
    \A i \in 1..Len(trace), j \in 1..Len(trace) :
        i < j => trace[i].hour <= trace[j].hour

\* the returned calls that computed hour h and replaced the cache
Replacements(h) ==
    { k \in 1..Len(trace) : trace[k].stored /\ trace[k].hour = h }

\* C14: when threads call get_current_hourly_pattern concurrently while the
\* wall clock advances across an hour boundary, the cache is replaced exactly
\* once for the new hour, by the first call to return that computed it, and
\* every call that returns after the replacement returns the replaced
\* pattern, whatever pattern it drew itself; no second pattern is observed
\* for the new hour.
C14_ReplacedOncePerBoundary ==
    ClockReadingsAscend =>
        \A i \in 1..Len(trace) :
            /\ Cardinality(Replacements(trace[i].hour)) <= 1
            /\ (\E j \in 1..Len(trace) : trace[j].hour < trace[i].hour)
                  => Cardinality(Replacements(trace[i].hour)) = 1
            /\ \A k \in Replacements(trace[i].hour) :
                  /\ k <= i
                  /\ trace[i].ret = trace[k].ret
                  /\ (InFlight = {} /\ trace[Len(trace)].hour = trace[k].hour)
                        => last_hourly_pattern = trace[k].ret

\* a call of the old hour and a call that replaced the cache for the new
\* hour have returned, and the other thread, which drew another pattern for
\* the new hour, is about to return the replaced one
C14_Witness ==
    /\ Len(trace) = 2
    /\ trace[1].hour < trace[2].hour
    /\ trace[2].stored
    /\ \E t \in Threads :
          /\ t # trace[2].thread
          /\ tpc[t] = "hp_return"
          /\ ~tlocal[t].differs
          /\ tlocal[t].new_pattern.hour = trace[2].hour
          /\ tlocal[t].new_pattern # last_hourly_pattern
          /\ last_hourly_pattern = trace[2].ret

(***************************************************************************)
(* Properties of the registry under any configuration                      *)
(***************************************************************************)
\* C15: should_rotate_session returns false for an identifier that is not
\* stored; for a stored one it returns true exactly when the time elapsed
\* since the session's last-rotation timestamp is at least
\* rotation_interval_hours * 3600 seconds: always true when the interval is
\* 0, false at the instant of a creation or rotation when the interval is
\* positive; the call changes nothing.
C15_ShouldRotateIffIntervalElapsed ==
    [][ \A id \in SessionIds :
          ( /\ ~poisoned
            /\ last_call'.op = "should_rotate_session"
            /\ last_call'.id = id
            /\ ShouldRotateSession(id) )
          => /\ id \notin DOMAIN sessions => last_call'.ret = FALSE
             /\ id \in DOMAIN sessions =>
                   /\ last_call'.ret =
                         (now - sessions[id].last_rotation
                             >= rconfig.rotation_interval_hours * 3600)
                   /\ rconfig.rotation_interval_hours = 0 => last_call'.ret = TRUE
                   /\ ( /\ rconfig.rotation_interval_hours > 0
                        /\ sessions[id].last_rotation = now )
                         => last_call'.ret = FALSE
             /\ sessions' = sessions
             /\ last_hourly_pattern' = last_hourly_pattern ]_vars

\* should_rotate_session has returned true for a session rotated exactly one
\* interval (3600 seconds) ago
C15_Witness ==
    /\ last_call.op = "should_rotate_session"
    /\ last_call.hit
    /\ last_call.ret = TRUE
    /\ rconfig.rotation_interval_hours = 1
    /\ last_call.id \in DOMAIN sessions
    /\ sessions[last_call.id].rotation_count = 1
    /\ now - sessions[last_call.id].last_rotation = 3600

\* C16: cleanup_old_sessions removes exactly the sessions whose age (now
\* minus creation timestamp) exceeds 24 hours: a session of age exactly 24
\* hours or less is retained with all its fields unchanged, every older one
\* is removed, and the call returns also when no session qualifies or the
\* map is empty.
C16_CleanupRemovesOlderThan24h ==
    [][ ( /\ ~poisoned
          /\ last_call'.op = "cleanup_old_sessions"
          /\ CleanupOldSessions )
        => /\ ~last_call'.panicked
           /\ DOMAIN sessions' =
                 { id \in DOMAIN sessions : now - sessions[id].created_at <= 86400 }
           /\ \A id \in DOMAIN sessions' : sessions'[id] = sessions[id] ]_vars

\* C17: get_rotation_stats reports total_sessions equal to the number of
\* stored sessions and total_rotations equal to the sum of their rotation
\* counters, which is the number of rotations that succeeded on the entries
\* now stored; with two sessions created and none rotated it reports 2, 0
\* and average 0.0; with no session the average is 0.0; the average is the
\* total divided by the count; the session map is left as it was.
C17_StatsTotals ==
    [][ ( /\ ~poisoned
          /\ last_call'.op = "get_rotation_stats"
          /\ \E pend \in DrawEnds : GetRotationStats(pend) )
        => LET stats == last_call'.ret
           IN /\ stats.total_sessions = Cardinality(DOMAIN sessions)
              /\ DOMAIN rotated = DOMAIN sessions
              /\ stats.total_rotations = Sum(rotated, DOMAIN sessions)
              /\ stats.avg_rotations_per_session.num
                    = (IF DOMAIN sessions = {} THEN 0 ELSE stats.total_rotations)
              /\ DOMAIN sessions # {} =>
                    stats.avg_rotations_per_session.den = stats.total_sessions
              /\ ( /\ DOMAIN sessions = SessionIds
                   /\ \A id \in SessionIds : rotated[id] = 0 )
                    => /\ stats.total_sessions = 2
                       /\ stats.total_rotations = 0
                       /\ stats.avg_rotations_per_session.num = 0
              /\ DOMAIN sessions = {} => stats.avg_rotations_per_session.num = 0
              /\ stats.current_pattern = PatternId(HourOf(wall))
              /\ sessions' = sessions ]_vars

\* the statistics of two stored sessions, both rotated once, have been
\* returned
C17_Witness ==
    /\ last_call.op = "get_rotation_stats"
    /\ ~last_call.panicked
    /\ last_call.ret.total_sessions = 2
    /\ last_call.ret.total_rotations = 2
    /\ DOMAIN sessions = SessionIds
    /\ \A id \in SessionIds : rotated[id] = 1

\* C18: constructing an engine with a configuration whose minimum exceeds
\* its maximum is rejected at construction: an engine that serves an
\* operation has min <= max in every range, so no operation makes a random
\* draw over an empty range.
C18_ViolatedRangeRejected ==
    last_call.op # "new" =>
        /\ RangesOrdered(rconfig)
        /\ ~DrawPanics(rconfig)

\* C19: when a range of the rotation configuration is violated (min > max),
\* get_session_parameters and rotate_session_parameters neither panic nor
\* deadlock: each call completes and returns to its caller.
C19_ViolatedRangeCompletes ==
    ( /\ ~RangesOrdered(rconfig)
      /\ last_call.op \in {"get_session_parameters", "rotate_session_parameters"} )
    => ~last_call.panicked

(***************************************************************************)
(* Properties of concurrent rotations                                      *)
(***************************************************************************)
\* the rotations of `id` that have returned Some, by their place in the
\* order of return
Rotations(id) ==
    { k \in 1..Len(trace) : trace[k].session_id = id /\ trace[k].ret.some }

\* C20: concurrent rotate_session_parameters calls on the same stored
\* identifier are serialized without lost updates: whenever no call is
\* inside the sessions lock, the session's rotation counter has grown by the
\* number N of such calls that have returned, and its stored parameters,
\* last-rotation timestamp and pattern identifier are all those of one call,
\* the last to return, never a mixture of two calls.
C20_RotationsSerialized ==
    holder.sessions = "none" =>
        \A id \in DOMAIN sessions :
            /\ sessions[id].rotation_count = Cardinality(Rotations(id))
            /\ \A k \in Rotations(id) :
                  (\A j \in Rotations(id) : j <= k)
                  => /\ Some(sessions[id].parameters) = trace[k].ret
                     /\ sessions[id].last_rotation = trace[k].last_rotation
                     /\ sessions[id].pattern_profile = trace[k].pattern_profile

\* two threads have rotated the same session, the second drawing other
\* parameters, at a later instant and in another hour than the first
C20_Witness ==
    /\ Len(trace) = 2
    /\ holder.sessions = "none"
    /\ trace[1].thread # trace[2].thread
    /\ trace[1].session_id = trace[2].session_id
    /\ trace[1].ret.some
    /\ trace[2].ret.some
    /\ trace[1].ret # trace[2].ret
    /\ trace[1].last_rotation < trace[2].last_rotation
    /\ trace[1].pattern_profile # trace[2].pattern_profile
    /\ sessions[trace[1].session_id].rotation_count = 2

(***************************************************************************)
(* Properties of the locks                                                 *)
(***************************************************************************)
\* a thread takes the sessions mutex only while it holds no guard: the
\* pattern mutex is taken second or alone, never before the sessions mutex
LockOrder ==
    \A t \in Threads :
        /\ tpc[t] = "lk_sessions" => holder.last_hourly_pattern # t
        /\ holder.last_hourly_pattern = t => tpc[t] = "lk_pattern_held"

\* C21: no interleaving of the registry operations from several threads
\* deadlocks: the sessions mutex and the pattern mutex are always taken in
\* the same order (sessions first, pattern second, never the reverse), and
\* under fair scheduling every thread inside a call, blocked on a mutex or
\* not, completes the call.
C21_NoDeadlock ==
    /\ []LockOrder
    /\ \A t \in Threads : (tpc[t] # "idle") ~> (tpc[t] = "idle")

\* one thread, holding the sessions guard, is blocked on the pattern mutex,
\* which the other thread holds
C21_Witness ==
    \E t \in Threads, u \in Threads :
        /\ t # u
        /\ holder.sessions = t
        /\ tpc[t] = "lk_pattern"
        /\ holder.last_hourly_pattern = u
        /\ tlocal[u].op = "create_signature_mask"
        /\ tlocal[t].op = "get_rotation_stats"

(***************************************************************************)
(* Properties of serialized calls                                          *)
(***************************************************************************)
\* C22: with the calls serialized by the caller, state is observed and
\* mutated in call order: a get_session_parameters that has returned for an
\* identifier returned the parameters of the most recent successful
\* rotate_session_parameters on it, or those of the creating call when it was
\* never rotated, which are the stored ones; the rotation counter of a
\* stored session is the number of successful rotations since its creation,
\* so it is 2 after create, rotate, rotate.
C22_CallOrder ==
    /\ \A id \in DOMAIN sessions :
          /\ sessions[id].parameters = issued[id]
          /\ sessions[id].rotation_count = rotated[id]
    /\ (last_call.op = "get_session_parameters" /\ ~last_call.panicked)
          => /\ last_call.id \in DOMAIN sessions
             /\ last_call.ret = issued[last_call.id]
    /\ (last_call.op = "rotate_session_parameters" /\ last_call.hit)
          => /\ last_call.ret = Some(issued[last_call.id])
             /\ rotated[last_call.id] >= 1

\* create, rotate, rotate, get on one identifier: the get found the entry and
\* the counter is 2
C22_Witness ==
    /\ last_call.op = "get_session_parameters"
    /\ last_call.hit
    /\ last_call.id \in DOMAIN sessions
    /\ rotated[last_call.id] = 2
    /\ sessions[last_call.id].rotation_count = 2
    /\ last_call.ret = sessions[last_call.id].parameters

\* the fields of a stored session that a rotation replaces
RotatedFields(session) ==
    <<session.parameters, session.rotation_count, session.last_rotation,
      session.pattern_profile>>

\* C26: the parameters, the rotation counter, the last-rotation timestamp and
\* the pattern identifier of a stored session are changed only by a
\* rotate_session_parameters on its identifier: get_session_parameters on a
\* stored identifier, should_rotate_session, get_rotation_stats,
\* get_current_hourly_pattern, create_signature_mask, generate_tcp_options
\* and cleanup_old_sessions (for a session it retains) leave them as they
\* are, and so does the passing of time: nothing is rotated when a rotation
\* falls due or the hour advances.
C26_OnlyRotateChanges ==
    [][ /\ \A id \in DOMAIN sessions \cap DOMAIN sessions' :
              RotatedFields(sessions'[id]) # RotatedFields(sessions[id])
                 => /\ last_call'.op = "rotate_session_parameters"
                    /\ last_call'.id = id
                    /\ last_call'.hit
        /\ sessions' # sessions
              => \/ last_call'.op = "rotate_session_parameters" /\ last_call'.hit
                 \/ last_call'.op = "get_session_parameters" /\ ~last_call'.hit
                 \/ last_call'.op = "cleanup_old_sessions" ]_vars

\* should_rotate_session has answered true for a session that was created in
\* the hour before the current one and is still as it was created
C26_Witness ==
    /\ last_call.op = "should_rotate_session"
    /\ last_call.hit
    /\ last_call.ret
    /\ sessions[last_call.id].rotation_count = 0
    /\ sessions[last_call.id].last_rotation = sessions[last_call.id].created_at
    /\ sessions[last_call.id].pattern_profile # last_hourly_pattern.pattern_id
    /\ sessions[last_call.id].parameters = issued[last_call.id]

(***************************************************************************)
(* Properties of the rotation counter                                      *)
(***************************************************************************)
\* C27: the rotation counter of a session is 0 when the entry is created,
\* never decreases while the entry stays stored, changes only in steps of
\* +1, and does not wrap around to a smaller value under any number of
\* rotations.
C27_CounterNeverDecreases ==
    [][ \A id \in DOMAIN sessions' :
          IF id \in DOMAIN sessions
          THEN /\ u32_le(sessions[id].rotation_count, sessions'[id].rotation_count)
               /\ sessions'[id].rotation_count # sessions[id].rotation_count
                     => /\ sessions[id].rotation_count # U32_MAX
                        /\ sessions'[id].rotation_count = sessions[id].rotation_count + 1
          ELSE sessions'[id].rotation_count = 0 ]_vars

(***************************************************************************)
(* Properties of the generated parameters                                  *)
(***************************************************************************)
\* the parameters follow the flags of cfg
FollowsToggles(cfg, params) ==
    /\ ~cfg.randomize_tcp_window => params.tcp_window_size = 65535
    /\ ~cfg.randomize_ttl => params.ttl = 64
    /\ IF cfg.randomize_packet_timing
       THEN params.packet_timing_variance \in 0..50
       ELSE params.packet_timing_variance = 0
    /\ params.tcp_mss \in {512, 768, 1024, 1256, 1380, 1460, 1480}

\* C28: each generated parameter follows its flag: the window is 65535 when
\* window randomization is disabled, the TTL is 64 when TTL randomization is
\* disabled, the timing variance is 0 when timing randomization is disabled
\* and within [0, 50] otherwise, and the maximum segment size is a member of
\* {512, 768, 1024, 1256, 1380, 1460, 1480} whatever the flags are; this
\* holds of the parameters stored at creation and at rotation and of those a
\* call has returned.
C28_ParametersFollowToggles ==
    /\ \A id \in DOMAIN sessions : FollowsToggles(rconfig, sessions[id].parameters)
    /\ (last_call.op = "get_session_parameters" /\ ~last_call.panicked)
          => FollowsToggles(rconfig, last_call.ret)
    /\ (last_call.op = "rotate_session_parameters" /\ last_call.hit)
          => FollowsToggles(rconfig, last_call.ret.value)

\* a rotation has returned under a configuration with the three flags off
\* whose ranges leave out 65535 and 64, next to a session as it was created
C28_Witness ==
    /\ ~rconfig.randomize_tcp_window
    /\ ~rconfig.randomize_ttl
    /\ ~rconfig.randomize_packet_timing
    /\ rconfig.max_tcp_window < 65535
    /\ rconfig.min_ttl > 64
    /\ last_call.op = "rotate_session_parameters"
    /\ last_call.hit
    /\ last_call.ret.value.tcp_window_size = 65535
    /\ last_call.ret.value.ttl = 64
    /\ \E id \in DOMAIN sessions : sessions[id].rotation_count = 0

\* C29: when get_session_parameters has created a session and
\* rotate_session_parameters is then called on it, the window size the
\* rotation returns differs from the window size returned at creation.
C29_RotatedWindowDiffers ==
    [][ \A id \in DOMAIN sessions :
          ( /\ rotated[id] = 0
            /\ id \in DOMAIN rotated'
            /\ rotated'[id] = 1
            /\ last_call'.op = "rotate_session_parameters"
            /\ last_call'.id = id
            /\ last_call'.hit )
          => last_call'.ret.value.tcp_window_size # issued[id].tcp_window_size ]_vars

(***************************************************************************)
(* create_signature_mask: threads stepping through the call                *)
(***************************************************************************)
\* a thread enters create_signature_mask
MkCall(t) ==
    /\ tpc[t] = "idle"
    /\ Len(trace) + Cardinality(InFlight) < MaxCalls
    /\ tlocal' = [tlocal EXCEPT ![t].op = "create_signature_mask"]
    /\ tpc' = [tpc EXCEPT ![t] = "hp_lock"]
    /\ UNCHANGED <<holder, trace>>
    /\ UNCHANGED <<fragVars, regVars, extVars>>

\* let pattern = self.get_current_hourly_pattern() has returned the slot's
\* value and dropped the guard; the mask is built of it and returned
MkReturn(t, end) ==
    /\ tpc[t] = "hp_return"
    /\ tlocal[t].op = "create_signature_mask"
    /\ trace' = Append(trace, [thread |-> t,
                               hour |-> tlocal[t].new_pattern.hour,
                               stored |-> tlocal[t].differs,
                               ret |-> last_hourly_pattern,
                               mask |-> SignatureMask(last_hourly_pattern, end)])
    /\ holder' = [holder EXCEPT !.last_hourly_pattern = "none"]
    /\ tlocal' = [tlocal EXCEPT ![t] = NoLocal]
    /\ tpc' = [tpc EXCEPT ![t] = "idle"]
    /\ UNCHANGED <<fragVars, regVars, extVars>>

\* a registry constructed in the last second of an hour that holds one
\* session; the fragmenter is not used
InitOneSession ==
    /\ rconfig = DefaultPatternRotationConfig
    /\ wall = 1762300799
    /\ \E end \in DrawEnds : last_hourly_pattern = generate_hourly_pattern(wall, end)
    /\ \E end \in DrawEnds :
          /\ sessions = Insert(EmptyMap, "s1",
                 NewSessionState("s1", 0, NewSessionParameters(rconfig, end),
                                 last_hourly_pattern.pattern_id))
          /\ issued = Insert(EmptyMap, "s1", NewSessionParameters(rconfig, end))
    /\ rotated = Insert(EmptyMap, "s1", 0)
    /\ now = 0
    /\ last_call = NoCall
    /\ poisoned = FALSE
    /\ config = DefaultFragmentationConfig
    /\ api = "none"
    /\ handshake = <<>>
    /\ pc = "idle"
    /\ offset = 0
    /\ packets = <<>>
    /\ passes = 0
    /\ result = NoResult
    /\ tpc = [t \in Threads |-> "idle"]
    /\ tlocal = [t \in Threads |-> NoLocal]
    /\ holder = NoHolder
    /\ trace = <<>>
    /\ evader = NoEvader
    /\ SECURITY_STATE = None

\* create_signature_mask calls of two threads, and the wall clock
NextMask ==
    \/ \E t \in Threads : MkCall(t)
    \/ \E t \in Threads : HpLock(t)
    \/ \E t \in Threads, pend \in DrawEnds : HpGenerate(t, pend)
    \/ \E t \in Threads : HpCompare(t)
    \/ \E t \in Threads : HpStore(t)
    \/ \E t \in Threads, end \in DrawEnds : MkReturn(t, end)
    \/ WallClock

MaskSpec == InitOneSession /\ [][NextMask]_vars

\* the three fields a mask takes from the hourly pattern
PatternFields(mask) ==
    <<mask.sequence_randomizer, mask.packet_order_shuffle, mask.timing_jitter>>

\* C31 as stated: a mask's sequence_randomizer, packet_order_shuffle and
\* timing_jitter are the offset, preset and boolean of the pattern current
\* at the call, any two masks created within the same hour index agree on
\* the three fields, and no call changes a session
C31_SameHourSameMask ==
    [][/\ sessions' = sessions
       /\ Len(trace') > Len(trace) =>
             LET n == Len(trace')
             IN /\ PatternFields(trace'[n].mask)
                      = <<last_hourly_pattern'.initial_sequence_offset,
                          last_hourly_pattern'.tcp_flags_preset,
                          last_hourly_pattern'.urg_pointer_enabled>>
                /\ last_hourly_pattern'.hour = trace'[n].hour
                /\ \A i \in 1..Len(trace) :
                      trace[i].hour = trace'[n].hour
                         => PatternFields(trace[i].mask) = PatternFields(trace'[n].mask)]_vars

\* C31, amended: a mask's sequence_randomizer, packet_order_shuffle and
\* timing_jitter are the offset, preset and boolean of the pattern current
\* at the call, two masks created within the same hour index agree on the
\* three fields provided no call serialized between them computed a
\* different hour index, and no call changes a session
C31_SameHourRunSameMask ==
    [][/\ sessions' = sessions
       /\ Len(trace') > Len(trace) =>
             LET n == Len(trace')
             IN /\ PatternFields(trace'[n].mask)
                      = <<last_hourly_pattern'.initial_sequence_offset,
                          last_hourly_pattern'.tcp_flags_preset,
                          last_hourly_pattern'.urg_pointer_enabled>>
                /\ last_hourly_pattern'.hour = trace'[n].hour
                /\ \A i \in 1..Len(trace) :
                      (\A k \in i..n : trace'[k].hour = trace'[n].hour)
                         => PatternFields(trace[i].mask) = PatternFields(trace'[n].mask)]_vars

\* two masks of one hour have been returned, the second one by a call that
\* drew another pattern and kept the cached one, and the session is stored
C31_Witness ==
    /\ Len(trace) = 2
    /\ trace[1].hour = trace[2].hour
    /\ ~trace[2].stored
    /\ PatternFields(trace[1].mask) = PatternFields(trace[2].mask)
    /\ trace[1].mask.payload_padding_ratio # trace[2].mask.payload_padding_ratio
    /\ "s1" \in DOMAIN sessions

\* the profile names generate_tcp_options has bytes of their own for
NamedProfiles == {"windows", "linux", "macos"}

\* C32: generate_tcp_options returns a non-empty byte sequence that depends
\* on the profile name only: "windows", "linux" and "macos" have sequences
\* of their own (the windows one differs from the linux one), every other
\* name has the generic fallback, and the call leaves the session map and
\* the hourly-pattern slot as they are
C32_TcpOptionsStaticLookup ==
    [][(last_call' # last_call /\ last_call'.op = "generate_tcp_options") =>
          LET name == last_call'.id
              ret == last_call'.ret
          IN /\ Len(ret) > 0
             /\ \A os_profile \in OsProfiles :
                   os_profile = name => ret = tcp_options(os_profile)
             /\ \A other \in NamedProfiles \ {name} :
                   name \in NamedProfiles => ret # tcp_options(other)
             /\ name \notin NamedProfiles => ret = <<2, 4, 5, 180, 1, 3, 3, 6>>
             /\ name \in NamedProfiles => ret # <<2, 4, 5, 180, 1, 3, 3, 6>>
             /\ sessions' = sessions
             /\ last_hourly_pattern' = last_hourly_pattern]_vars

\* the linux options were returned by a registry that holds a rotated session
C32_Witness ==
    /\ last_call.op = "generate_tcp_options"
    /\ last_call.id = "linux"
    /\ Len(last_call.ret) = 22
    /\ \E id \in DOMAIN sessions : sessions[id].rotation_count > 0

(***************************************************************************)
(* Expiry of a session that was stored at construction time                *)
(***************************************************************************)
\* the session operations and the expiry sweep while time passes
NextExpiry ==
    \/ \E id \in SessionIds, end \in DrawEnds, pend \in DrawEnds :
          GetSessionParameters(id, end, pend)
    \/ \E id \in SessionIds, end \in DrawEnds, pend \in DrawEnds :
          /\ id \in DOMAIN sessions => sessions[id].rotation_count < MaxRotations
          /\ RotateSessionParameters(id, end, pend)
    \/ CleanupOldSessions
    \/ Tick

ExpirySpec == InitOneSession /\ [][NextExpiry]_vars

GsCall(t, id) ==
    /\ tpc[t] = "idle"
    /\ Len(trace) + Cardinality(InFlight) < MaxCalls
    /\ tlocal' = [tlocal EXCEPT ![t].op = "get_session_parameters",
                                ![t].session_id = id]
    /\ tpc' = [tpc EXCEPT ![t] = "lk_sessions"]
    /\ UNCHANGED <<holder, trace>>
    /\ UNCHANGED <<fragVars, regVars, extVars>>

\* the return of get_session_parameters: the clone of the stored parameters
\* when the lookup found the entry, else the insert of the new entry and
\* the drawn parameters; the sessions guard is dropped
GsFinish(t, end) ==
    /\ tpc[t] = "lk_finish"
    /\ tlocal[t].op = "get_session_parameters"
    /\ LET id == tlocal[t].session_id
           params == NewSessionParameters(rconfig, end)
           pattern_id == tlocal[t].new_pattern.pattern_id
       IN IF tlocal[t].found
          THEN /\ trace' = Append(trace, [thread |-> t, session_id |-> id, hit |-> TRUE,
                                          ret |-> sessions[id].parameters])
               /\ UNCHANGED <<sessions, issued, rotated>>
          ELSE /\ sessions' = Insert(sessions, id,
                                     NewSessionState(id, now, params, pattern_id))
               /\ issued' = Insert(issued, id, params)
               /\ rotated' = Insert(rotated, id, 0)
               /\ trace' = Append(trace, [thread |-> t, session_id |-> id, hit |-> FALSE,
                                          ret |-> params])
    /\ holder' = [m \in DOMAIN holder |-> IF holder[m] = t THEN "none" ELSE holder[m]]
    /\ tlocal' = [tlocal EXCEPT ![t] = NoLocal]
    /\ tpc' = [tpc EXCEPT ![t] = "idle"]
    /\ UNCHANGED <<rconfig, last_hourly_pattern, now, wall, last_call, poisoned>>
    /\ UNCHANGED <<fragVars, extVars>>

\* get_session_parameters calls of two threads on a new registry
NextGet ==
    \/ \E t \in Threads, id \in SessionIds : GsCall(t, id)
    \/ \E t \in Threads : LkSessions(t)
    \/ \E t \in Threads : LkLookup(t)
    \/ \E t \in Threads : LkPattern(t)
    \/ \E t \in Threads, pend \in DrawEnds : LkPatternHeld(t, pend)
    \/ \E t \in Threads, end \in DrawEnds : GsFinish(t, end)

GetSpec == InitPat /\ [][NextGet]_vars

\* the returned calls that were made for the identifier
CallsFor(id) == { i \in 1..Len(trace) : trace[i].session_id = id }

\* C34: of the get_session_parameters calls threads make for one
\* identifier, exactly one creates the entry and every one returns the
\* parameters that are stored; an entry's session_id is its key, and an
\* identifier no call has returned for has no entry
C34_OneEntryPerIdentifier ==
    /\ \A id \in DOMAIN sessions : sessions[id].session_id = id
    /\ \A id \in SessionIds :
          /\ id \in DOMAIN sessions <=> CallsFor(id) # {}
          /\ CallsFor(id) # {} =>
                /\ Cardinality({ i \in CallsFor(id) : ~trace[i].hit }) = 1
                /\ \A i \in CallsFor(id) : trace[i].ret = sessions[id].parameters

\* two threads were inside get_session_parameters for the same new
\* identifier at once; one has created the entry and returned, the other
\* one, whose draw would differ, holds the guard and has found the entry
C34_Witness ==
    /\ Len(trace) = 1
    /\ ~trace[1].hit
    /\ \E t \in Threads :
          /\ t # trace[1].thread
          /\ tpc[t] = "lk_finish"
          /\ tlocal[t].session_id = trace[1].session_id
          /\ tlocal[t].found
          /\ holder.sessions = t

\* the hour indexes of the wall-clock readings
Hours == { HourOf(w) : w \in WallTimes }

\* the pattern identifier of each of these hours
HourIds == [h \in Hours |-> PatternId(h)]

\* C35: a session's pattern identifier is the identifier of the pattern
\* that is cached when the session is created or rotated, which is the
\* pattern of the hour of that call, and no other step changes it; while
\* the wall clock does not go back, the identifier of every stored session
\* is the formatting of an hour that is not later than the cached hour;
\* and after a get_current_hourly_pattern call the cached pattern has the
\* hour the call computed and the identifier that is the formatting of it
C35_PatternIdentifiers ==
    [][/\ \A id \in DOMAIN sessions' :
             IF id \notin DOMAIN sessions
                   \/ sessions'[id].rotation_count # sessions[id].rotation_count
             THEN /\ sessions'[id].pattern_profile = last_hourly_pattern'.pattern_id
                  /\ last_hourly_pattern'.hour = HourOf(wall)
             ELSE sessions'[id].pattern_profile = sessions[id].pattern_profile
       /\ \A id \in DOMAIN sessions' :
             \E h \in Hours : /\ h <= last_hourly_pattern'.hour
                              /\ sessions'[id].pattern_profile = HourIds[h]
       /\ (last_call'.op = "get_current_hourly_pattern" /\ last_call' # last_call) =>
             /\ last_hourly_pattern'.hour = HourOf(wall)
             /\ last_hourly_pattern'.pattern_id = HourIds[HourOf(wall)]
             /\ HourOf(wall) = 489528 => last_hourly_pattern'.pattern_id = "pattern_00077838"
             /\ last_call'.ret = last_hourly_pattern']_vars

\* one session carries the identifier of the hour it was created in, the
\* other one was rotated in the next hour and carries the identifier of the
\* pattern a get_current_hourly_pattern call has just returned
C35_Witness ==
    /\ last_call.op = "get_current_hourly_pattern"
    /\ last_call.ret.hour = 489528
    /\ DOMAIN sessions = SessionIds
    /\ sessions["s1"].pattern_profile = "pattern_00077837"
    /\ sessions["s2"].pattern_profile = last_call.ret.pattern_id
    /\ sessions["s2"].rotation_count = 1

\* C36: a registry call that aborts part-way leaves the session map as it
\* was, and every session operation called after an abort returns to its
\* caller instead of aborting at the lock
C36_AbortLeavesRegistryUsable ==
    [][/\ (last_call'.panicked /\ last_call' # last_call) => sessions' = sessions
       /\ (last_call.panicked /\ last_call' # last_call) => ~last_call'.panicked]_vars

(***************************************************************************)
(* Properties of the 32-bit sums of the statistics                         *)
(***************************************************************************)
\* C37: get_stats returns, without aborting, a total_delay_ms that is the
\* exact sum of the 32-bit delays of the fragments it was called on (the sum
\* stays below 2^32 and both 16-bit halves of the total are those of the
\* sum), and get_rotation_stats likewise returns a total_rotations that is
\* the exact sum of the 32-bit rotation counters of the stored sessions
C37_SumsAreExact ==
    /\ last_call.op = "get_stats" =>
          /\ ~last_call.panicked
          /\ ~DelaySumOverflows(StatsArgument)
          /\ u32_hi(last_call.ret.total_delay_ms) = delay_sum_hi(StatsArgument, 0)
    /\ last_call.op = "get_rotation_stats" =>
          /\ ~last_call.panicked
          /\ ~RotationSumOverflows(sessions)
          /\ u32_hi(last_call.ret.total_rotations) = rotation_sum_hi(sessions)

(***************************************************************************)
(* detection_evasion.rs: the adaptation level of a DetectionEvader         *)
(***************************************************************************)
\* the max_adaptation_level arguments (u8) an evader is constructed with
AdaptationLevels == {0, 1, 2, 3, 5, 255}

\* DetectionEvader::new
NewDetectionEvader(max_adaptation_level) ==
    [max_adaptation_level |-> max_adaptation_level, current_level |-> 1]

\* DetectionEvader::adapt_to_detection, which returns Ok(())
AdaptToDetection ==
    /\ evader' = IF evader.current_level < evader.max_adaptation_level
                 THEN [evader EXCEPT !.current_level = @ + 1]
                 ELSE evader
    /\ last_call' = Returned("adapt_to_detection", "", FALSE, 0)
    /\ UNCHANGED <<rconfig, poisoned, sessions, last_hourly_pattern, now, wall, issued, rotated>>
    /\ UNCHANGED fragVars
    /\ UNCHANGED thrVars
    /\ UNCHANGED SECURITY_STATE

\* DetectionEvader::reset_adaptation
ResetAdaptation ==
    /\ evader' = [evader EXCEPT !.current_level = 1]
    /\ last_call' = Returned("reset_adaptation", "", FALSE, 0)
    /\ UNCHANGED <<rconfig, poisoned, sessions, last_hourly_pattern, now, wall, issued, rotated>>
    /\ UNCHANGED fragVars
    /\ UNCHANGED thrVars
    /\ UNCHANGED SECURITY_STATE

\* DetectionEvader::adaptation_level
AdaptationLevel ==
    /\ last_call' = Returned("adaptation_level", "", FALSE, evader.current_level)
    /\ UNCHANGED <<rconfig, poisoned, sessions, last_hourly_pattern, now, wall, issued, rotated>>
    /\ UNCHANGED fragVars
    /\ UNCHANGED thrVars
    /\ UNCHANGED extVars

\* an evader constructed by new() with any maximum; the fragmenter and the
\* registry are not used
InitEvader ==
    /\ evader \in { NewDetectionEvader(m) : m \in AdaptationLevels }
    /\ SECURITY_STATE = None
    /\ config = DefaultFragmentationConfig
    /\ api = "none"
    /\ handshake = <<>>
    /\ pc = "idle"
    /\ offset = 0
    /\ packets = <<>>
    /\ passes = 0
    /\ result = NoResult
    /\ rconfig = DefaultPatternRotationConfig
    /\ sessions = EmptyMap
    /\ wall = 1762300800
    /\ last_hourly_pattern = NoPattern
    /\ now = 0
    /\ last_call = NoCall
    /\ issued = EmptyMap
    /\ rotated = EmptyMap
    /\ poisoned = FALSE
    /\ tpc = [t \in Threads |-> "idle"]
    /\ tlocal = [t \in Threads |-> NoLocal]
    /\ holder = NoHolder
    /\ trace = <<>>

NextEvader ==
    \/ AdaptToDetection
    \/ ResetAdaptation
    \/ AdaptationLevel

EvaderSpec == InitEvader /\ [][NextEvader]_vars

\* C38: after every adapt_to_detection and reset_adaptation call the
\* adaptation level is within [1, max_adaptation_level]; adapt_to_detection
\* raises the level by exactly 1 while it is below the maximum and leaves it
\* unchanged at the maximum, and reset_adaptation sets it to 1
C38_LevelWithinBounds ==
    [][/\ evader'.max_adaptation_level = evader.max_adaptation_level
       /\ 1 <= evader'.current_level
       /\ evader'.current_level <= evader'.max_adaptation_level
       /\ AdaptToDetection =>
             evader'.current_level =
                IF evader.current_level < evader.max_adaptation_level
                THEN evader.current_level + 1
                ELSE evader.current_level
       /\ ResetAdaptation => evader'.current_level = 1]_vars

(***************************************************************************)
(* ffi.rs: the C interface, one call at a time                             *)
(***************************************************************************)
\* calls through the C interface before the model stops following them
MaxFfiCalls == 3

\* the traffic operations of the C interface
TrafficOps == {"process_outgoing_traffic", "process_incoming_traffic",
               "apply_tls_fragmentation", "apply_dynamic_pattern_rotation"}

\* which pointer argument of a call is null: none, the input buffer
\* (input / handshake / packet), output, output_len or, for
\* process_outgoing_traffic, the optional opts
NullArguments(op) ==
    {"none", "input", "output", "output_len"}
       \cup (IF op = "process_outgoing_traffic" THEN {"opts"} ELSE {})

\* how the body of a traffic operation ends once the state is found: it
\* completes, or it fails (a panic that catch_unwind catches, an Err of
\* rotate_pattern, an output longer than i32::MAX)
BodyOutcomes == {"completed", "failed"}

\* if input.is_null() || output.is_null() || output_len.is_null()
NullPointerPassed(null) == null \in {"input", "output", "output_len"}

\* SecurityState { .. } of security_init
NewSecurityState ==
    [pattern_rotator |-> [rotation_interval_hours |-> 1],
     detection_evader |-> NewDetectionEvader(5)]

\* the return code of a traffic operation
TrafficCode(state, null, outcome) ==
    IF NullPointerPassed(null) THEN -1
    ELSE IF state.some /\ outcome = "completed" THEN 0
    ELSE -1

\* security_init: the state is assigned once every engine is constructed; a
\* panic of a constructor is caught and leaves the state as it was
SecurityInit(outcome) ==
    /\ Len(trace) < MaxFfiCalls
    /\ IF outcome = "completed"
       THEN /\ SECURITY_STATE' = Some(NewSecurityState)
            /\ trace' = Append(trace, [op |-> "security_init", null |-> "none", ret |-> 0])
       ELSE /\ SECURITY_STATE' = SECURITY_STATE
            /\ trace' = Append(trace, [op |-> "security_init", null |-> "none", ret |-> -1])
    /\ UNCHANGED <<tpc, tlocal, holder, evader>>
    /\ UNCHANGED <<fragVars, regVars>>

\* mutation of SecurityShutdown: the state is left in place
SecurityShutdown_KeepsState ==
    /\ Len(trace) < MaxFfiCalls
    /\ SECURITY_STATE' = SECURITY_STATE
    /\ trace' = Append(trace, [op |-> "security_shutdown", null |-> "none", ret |-> 0])
    /\ UNCHANGED <<tpc, tlocal, holder, evader>>
    /\ UNCHANGED <<fragVars, regVars>>

\* security_shutdown
SecurityShutdown ==
    /\ Len(trace) < MaxFfiCalls
    /\ SECURITY_STATE' = None
    /\ trace' = Append(trace, [op |-> "security_shutdown", null |-> "none", ret |-> 0])
    /\ UNCHANGED <<tpc, tlocal, holder, evader>>
    /\ UNCHANGED <<fragVars, regVars>>

\* process_outgoing_traffic, process_incoming_traffic,
\* apply_tls_fragmentation and apply_dynamic_pattern_rotation: the null
\* check, then the body inside catch_unwind; no engine's state is changed
TrafficCall(op, null, outcome) ==
    /\ Len(trace) < MaxFfiCalls
    /\ trace' = Append(trace, [op |-> op, null |-> null,
                               ret |-> TrafficCode(SECURITY_STATE, null, outcome)])
    /\ UNCHANGED <<tpc, tlocal, holder>>
    /\ UNCHANGED <<fragVars, regVars, extVars>>

\* the loaded library: no state until security_init is called
InitFfi ==
    /\ SECURITY_STATE = None
    /\ evader = NoEvader
    /\ config = DefaultFragmentationConfig
    /\ api = "none"
    /\ handshake = <<>>
    /\ pc = "idle"
    /\ offset = 0
    /\ packets = <<>>
    /\ passes = 0
    /\ result = NoResult
    /\ rconfig = DefaultPatternRotationConfig
    /\ sessions = EmptyMap
    /\ wall = 1762300800
    /\ last_hourly_pattern = NoPattern
    /\ now = 0
    /\ last_call = NoCall
    /\ issued = EmptyMap
    /\ rotated = EmptyMap
    /\ poisoned = FALSE
    /\ tpc = [t \in Threads |-> "idle"]
    /\ tlocal = [t \in Threads |-> NoLocal]
    /\ holder = NoHolder
    /\ trace = <<>>

NextFfi ==
    \/ \E outcome \in BodyOutcomes : SecurityInit(outcome)
    \/ SecurityShutdown
    \/ \E op \in TrafficOps :
          \E null \in NullArguments(op), outcome \in BodyOutcomes :
             TrafficCall(op, null, outcome)

FfiSpec == InitFfi /\ [][NextFfi]_vars

\* a security_init that returned 0 precedes call i with no
\* security_shutdown in between
InitializedBefore(i) ==
    \E j \in 1..(i - 1) :
       /\ trace[j].op = "security_init"
       /\ trace[j].ret = 0
       /\ \A k \in (j + 1)..(i - 1) : trace[k].op # "security_shutdown"

\* C39: in every sequence of security_init, security_shutdown and traffic
\* calls, a traffic operation returns -1 when no security_init has returned
\* since the start or since the last security_shutdown, and when its input,
\* output or output_len pointer is null; it returns 0 or -1, and 0 only
\* between a security_init and the next security_shutdown
C39_TrafficCodes ==
    \A i \in 1..Len(trace) :
       trace[i].op \in TrafficOps =>
          /\ trace[i].ret \in {0, -1}
          /\ ~InitializedBefore(i) => trace[i].ret = -1
          /\ NullPointerPassed(trace[i].null) => trace[i].ret = -1
          /\ trace[i].ret = 0 =>
                \E j \in 1..(i - 1) :
                   /\ trace[j].op = "security_init"
                   /\ \A k \in (j + 1)..(i - 1) : trace[k].op # "security_shutdown"

\* security_init and security_shutdown have returned 0 and a traffic
\* operation called then with no null pointer has returned -1
C39_Witness ==
    /\ Len(trace) = 3
    /\ trace[1] = [op |-> "security_init", null |-> "none", ret |-> 0]
    /\ trace[2].op = "security_shutdown"
    /\ trace[3].op = "apply_tls_fragmentation"
    /\ trace[3].null = "none"
    /\ trace[3].ret = -1
    /\ ~SECURITY_STATE.some

=============================================================================
